---- MODULE Spec2Model ----
(***************************************************************************)
(* A model of rubiks_simple.py: the RubiksCube state engine (move tables,  *)
(* apply_move, scramble, is_solved, find_edge, find_corner), the           *)
(* LayerByLayerSolver pipeline (seven stages and _simplify_moves) and the  *)
(* event handlers and solve threads of RubiksCubeGUI.                      *)
(*                                                                         *)
(* Conventions.  A facelet array is a function 0..53 -> colour, indexed as *)
(* the Python list is.  A Python list or tuple is a TLA+ sequence; where   *)
(* the source indexes one from 0 the model writes [k + 1].  A move name is *)
(* the sequence of its characters (<<"U">>, <<"U", "'">>, <<"U", "2">>),   *)
(* so that move[0], len(move), endswith and string concatenation are       *)
(* modelled by what they do.  None is the empty tuple.                     *)
(***************************************************************************)
EXTENDS Integers, Sequences, FiniteSets, TLC

VARIABLES
    MOVE_TABLES,    \* RubiksCube.MOVE_TABLES, the class-level dict
    start,          \* the facelet array the behaviour began with
    stickers,       \* the caller's cube: RubiksCube.stickers
    ops,            \* number of engine operations applied so far (model bound)
    moves,          \* the argument of _simplify_moves
    simplified,     \* the value _simplify_moves returned
    pc,             \* position of the call under study
    stage,          \* solve: the number of the next stage to run, 0 outside solve
    working_cube,   \* solve: working_cube.stickers
    solution,       \* solve: self.solution, the move log
    error,          \* solve: the exception raised inside the try block, or "none"
    result,         \* solve: the returned list
    scramble_moves, \* scramble: the `moves` argument of the last call
    scramble_applied,       \* scramble: the moves the last call applied, in order
    solved,         \* is_solved: the value the last call returned
    solving_in_progress,    \* RubiksCubeGUI.solving_in_progress
    gui_solution,   \* RubiksCubeGUI.solution
    current_step,   \* RubiksCubeGUI.current_step
    auto_mode,      \* RubiksCubeGUI.auto_mode
    workers,        \* the solve_thread threads started so far, in order
    cubes,          \* the RubiksCube objects created, in order: the id of each one's list
    lists,          \* the list objects created, in order: the contents of each
    clone,          \* the id of the cube object copy() returned, 0 before the call
    call,           \* the last call under study: its name and arguments
    found,          \* find_edge, find_corner: the value the last call returned
    piece,          \* solve: the pieces of the current stage handled so far
    n_iterations    \* _safe_while_loop: its local `iterations`

\* what the calls under study received and returned
probes == <<scramble_moves, scramble_applied, solved>>

\* the fields of RubiksCubeGUI (its cube is stickers) and its threads
gui == <<solving_in_progress, gui_solution, current_step, auto_mode, workers>>

\* the objects of a behaviour that clones a cube
heap == <<cubes, lists, clone>>

\* the last call made, what a locate query returned, solve's piece counter and
\* the counter of the bounded loop
trace == <<call, found, piece, n_iterations>>

vars == <<MOVE_TABLES, start, stickers, ops, moves, simplified, pc, stage,
          working_cube, solution, error, result, probes, gui, heap, trace>>

(***************************************************************************)
(* Bounds of the model.                                                    *)
(***************************************************************************)
MaxOps == 2         \* engine operations per behaviour
MaxScramble == 1    \* solve: largest count passed to scramble beforehand
MaxShort == 2       \* simplify: longest input over all 18 moves
MaxLen == 4         \* simplify: longest input over the moves of SimplifyFaces
MaxTurnsBefore == 2 \* solve, piece by piece: moves turned before the call

(***************************************************************************)
(* Python helpers.                                                         *)
(***************************************************************************)
None == <<>>

Range(f) == {f[x] : x \in DOMAIN f}

\* a list comprehension builds its whole list at once: the value f, with
\* every element computed before it is used
Eager(f) == IF f = f THEN f ELSE f

\* s + t for strings
Concat(s, t) == s \o t

\* c in s, for a one-character c
Contains(s, c) == \E k \in 1..Len(s) : s[k] = c

\* s.endswith(c), for a one-character c
EndsWith(s, c) == Len(s) > 0 /\ s[Len(s)] = c

(***************************************************************************)
(* RubiksCube: class attributes.                                           *)
(***************************************************************************)
FACE_NAMES == <<"U", "D", "L", "R", "F", "B">>

FACE_LETTERS == [f \in Range(FACE_NAMES) |->
    CASE f = "U" -> 0 [] f = "D" -> 1 [] f = "L" -> 2
      [] f = "R" -> 3 [] f = "F" -> 4 [] f = "B" -> 5]

EDGE_POSITIONS == <<
    <<"U", 0, 1, "B", 0, 1>>,
    <<"U", 1, 0, "L", 0, 1>>,
    <<"U", 1, 2, "R", 0, 1>>,
    <<"U", 2, 1, "F", 0, 1>>,
    <<"D", 0, 1, "F", 2, 1>>,
    <<"D", 1, 0, "L", 2, 1>>,
    <<"D", 1, 2, "R", 2, 1>>,
    <<"D", 2, 1, "B", 2, 1>>,
    <<"F", 1, 0, "L", 1, 2>>,
    <<"F", 1, 2, "R", 1, 0>>,
    <<"B", 1, 0, "R", 1, 2>>,
    <<"B", 1, 2, "L", 1, 0>> >>

CORNER_POSITIONS == <<
    <<"U", 0, 0, "L", 0, 0, "B", 0, 2>>,
    <<"U", 0, 2, "B", 0, 0, "R", 0, 2>>,
    <<"U", 2, 0, "F", 0, 0, "L", 0, 2>>,
    <<"U", 2, 2, "R", 0, 0, "F", 0, 2>>,
    <<"D", 0, 0, "L", 2, 2, "F", 2, 0>>,
    <<"D", 0, 2, "F", 2, 2, "R", 2, 0>>,
    <<"D", 2, 0, "B", 2, 2, "L", 2, 0>>,
    <<"D", 2, 2, "R", 2, 2, "B", 2, 0>> >>

(***************************************************************************)
(* RubiksCube._generate_permutation.                                       *)
(***************************************************************************)
face_offsets == [f \in Range(FACE_NAMES) |->
    CASE f = "U" -> 0 [] f = "D" -> 9 [] f = "L" -> 18
      [] f = "R" -> 27 [] f = "F" -> 36 [] f = "B" -> 45]

\* mutant: the list shifted by one place instead of the grid turned
rotate_90_list_shift(indices) ==
    <<indices[8 + 1], indices[0 + 1], indices[1 + 1],
      indices[2 + 1], indices[3 + 1], indices[4 + 1],
      indices[5 + 1], indices[6 + 1], indices[7 + 1]>>

\* rotate_90 as written, on a 9-element list
rotate_90(indices) ==
    <<indices[6 + 1], indices[3 + 1], indices[0 + 1],
      indices[7 + 1], indices[4 + 1], indices[1 + 1],
      indices[8 + 1], indices[5 + 1], indices[2 + 1]>>

RECURSIVE rotate_times(_, _)
rotate_times(indices, turns) ==
    IF turns = 0 THEN indices ELSE rotate_times(rotate_90(indices), turns - 1)

edge_cycles == [f \in Range(FACE_NAMES) |->
    CASE f = "U" -> << <<36, 18, 45, 27>>, <<37, 19, 46, 28>>, <<38, 20, 47, 29>> >>
      [] f = "D" -> << <<42, 33, 51, 24>>, <<43, 34, 52, 25>>, <<44, 35, 53, 26>> >>
      [] f = "L" -> << <<0, 45, 9, 36>>, <<3, 48, 12, 39>>, <<6, 51, 15, 42>> >>
      [] f = "R" -> << <<2, 38, 11, 47>>, <<5, 41, 14, 50>>, <<8, 44, 17, 53>> >>
      [] f = "F" -> << <<6, 27, 15, 18>>, <<7, 30, 16, 21>>, <<8, 33, 17, 24>> >>
      [] f = "B" -> << <<0, 20, 9, 29>>, <<1, 23, 10, 32>>, <<2, 26, 11, 35>> >>]

\* mutant: the last entry of the cycle is left out of the rotation
cycle_once_three(permutation, cycle) ==
    [i \in 0..53 |->
        IF i = cycle[1] THEN permutation[cycle[3]]
        ELSE IF i = cycle[2] THEN permutation[cycle[1]]
        ELSE IF i = cycle[3] THEN permutation[cycle[2]]
        ELSE permutation[i]]

\* mutant: the last entry is not saved in temp before it is overwritten
cycle_once_no_temp(permutation, cycle) ==
    [i \in 0..53 |->
        IF i = cycle[1] THEN permutation[cycle[3]]
        ELSE IF i = cycle[2] THEN permutation[cycle[1]]
        ELSE IF i = cycle[3] THEN permutation[cycle[2]]
        ELSE IF i = cycle[4] THEN permutation[cycle[3]]
        ELSE permutation[i]]

\* one pass of the inner loop: the values of the cycle's entries move one
\* place towards the end of the cycle, the last one to the front
cycle_once(permutation, cycle) ==
    [i \in 0..53 |->
        IF i = cycle[1] THEN permutation[cycle[4]]
        ELSE IF i = cycle[2] THEN permutation[cycle[1]]
        ELSE IF i = cycle[3] THEN permutation[cycle[2]]
        ELSE IF i = cycle[4] THEN permutation[cycle[3]]
        ELSE permutation[i]]

RECURSIVE cycle_times(_, _, _)
cycle_times(permutation, cycle, turns) ==
    IF turns = 0 THEN permutation
    ELSE cycle_times(cycle_once(permutation, cycle), cycle, turns - 1)

RECURSIVE apply_cycles(_, _, _)
apply_cycles(permutation, cycles, turns) ==
    IF cycles = <<>> THEN permutation
    ELSE apply_cycles(cycle_times(permutation, Head(cycles), turns),
                      Tail(cycles), turns)

\* mutant: the face's own indices taken one place too far
_generate_permutation_shifted(face, turns) ==
    LET offset == face_offsets[face] + 1
        face_indices == [k \in 1..9 |-> (offset + k - 1) % 54]
        rotated == rotate_times(face_indices, turns)
        withFace == [i \in 0..53 |->
            IF i \in offset..(offset + 8) THEN rotated[i - offset + 1] ELSE i]
    IN  apply_cycles(withFace, edge_cycles[face], turns)

_generate_permutation(face, turns) ==
    LET offset == face_offsets[face]
        face_indices == [k \in 1..9 |-> offset + k - 1]
        rotated == rotate_times(face_indices, turns)
        withFace == [i \in 0..53 |->
            IF i \in offset..(offset + 8) THEN rotated[i - offset + 1] ELSE i]
    IN  apply_cycles(withFace, edge_cycles[face], turns)

(***************************************************************************)
(* RubiksCube._init_move_tables: a no-op once the dict is non-empty.       *)
(***************************************************************************)
base_moves == <<"U", "D", "L", "R", "F", "B">>
suffixes == <<"", "'", "2">>

\* face + suffix
move_name(face, suffix) ==
    IF suffix = "" THEN <<face>> ELSE Concat(<<face>>, <<suffix>>)

\* mutant: the prime suffix taken for a half turn
turns_of_prime_as_half(suffix) ==
    IF suffix = "" THEN 1 ELSE 2

\* mutant: the two suffixes' turn counts exchanged
turns_of_swapped(suffix) ==
    IF suffix = "" THEN 1 ELSE (IF suffix = "'" THEN 2 ELSE 3)

turns_of(suffix) ==
    IF suffix = "" THEN 1 ELSE (IF suffix = "'" THEN 3 ELSE 2)

BuiltTables ==
    LET names == {move_name(f, s) : f \in Range(base_moves), s \in Range(suffixes)}
    IN  [m \in names |->
            _generate_permutation(m[1],
                turns_of(IF Len(m) = 1 THEN "" ELSE m[2]))]

\* mutant: the early return is missing and a later call refills the dict
\* with the turn counts of the two suffixes exchanged
_init_move_tables_refills(tables) ==
    IF DOMAIN tables = {} THEN BuiltTables
    ELSE [m \in DOMAIN BuiltTables |->
             _generate_permutation(m[1],
                 IF Len(m) = 1 THEN 1 ELSE (IF m[2] = "'" THEN 2 ELSE 3))]

_init_move_tables(tables) ==
    IF DOMAIN tables # {} THEN tables ELSE BuiltTables

(***************************************************************************)
(* RubiksCube instance methods, as functions of the facelet array.         *)
(***************************************************************************)
\* reset(): the array reset leaves behind
reset == [i \in 0..53 |-> i \div 9]

\* mutant: a name that is not in the table leaves the array alone
apply_move_skips_unknown(st, move) ==
    IF move \notin DOMAIN MOVE_TABLES THEN st
    ELSE Eager([i \in 0..53 |-> st[MOVE_TABLES[move][i]]])

\* apply_move: the array after the move
apply_move(st, move) ==
    LET m == IF move \notin DOMAIN MOVE_TABLES /\ Len(move) > 0
             THEN <<move[1]>> ELSE move
        permutation == MOVE_TABLES[m]
    IN  Eager([i \in 0..53 |-> st[permutation[i]]])

\* mutant: the last facelet of each face is not compared
is_solved_skips_last(st) ==
    \A face_idx \in 0..5 : \A i \in 0..7 :
        st[face_idx * 9 + i] = st[face_idx * 9 + 4]

is_solved(st) ==
    \A face_idx \in 0..5 : \A i \in 0..8 :
        st[face_idx * 9 + i] = st[face_idx * 9 + 4]

get_sticker(st, face, row, col) ==
    st[FACE_LETTERS[face] * 9 + row * 3 + col]

RECURSIVE find_edge_from(_, _, _, _)
find_edge_from(st, color1, color2, k) ==
    IF k > Len(EDGE_POSITIONS) THEN None
    ELSE LET e == EDGE_POSITIONS[k]
             c1_val == get_sticker(st, e[1], e[2], e[3])
             c2_val == get_sticker(st, e[4], e[5], e[6])
         IN  IF {c1_val, c2_val} = {color1, color2} THEN e
             ELSE find_edge_from(st, color1, color2, k + 1)

\* mutant: the scan keeps going and returns the last slot that matches
find_edge_last_match(st, color1, color2) ==
    LET hits == {k \in 1..Len(EDGE_POSITIONS) :
                    LET e == EDGE_POSITIONS[k]
                    IN  {get_sticker(st, e[1], e[2], e[3]),
                         get_sticker(st, e[4], e[5], e[6])} = {color1, color2}}
    IN  IF hits = {} THEN None
        ELSE EDGE_POSITIONS[CHOOSE k \in hits : \A j \in hits : j <= k]

find_edge(st, color1, color2) == find_edge_from(st, color1, color2, 1)

RECURSIVE find_corner_from(_, _, _, _, _)
find_corner_from(st, color1, color2, color3, k) ==
    IF k > Len(CORNER_POSITIONS) THEN None
    ELSE LET c == CORNER_POSITIONS[k]
             c1_val == get_sticker(st, c[1], c[2], c[3])
             c2_val == get_sticker(st, c[4], c[5], c[6])
             c3_val == get_sticker(st, c[7], c[8], c[9])
         IN  IF {c1_val, c2_val, c3_val} = {color1, color2, color3} THEN c
             ELSE find_corner_from(st, color1, color2, color3, k + 1)

find_corner(st, color1, color2, color3) ==
    find_corner_from(st, color1, color2, color3, 1)

\* mutant: a prime move counted as one quarter turn
scramble_dir_prime_as_one(move) ==
    IF Contains(move, "2") THEN 2 ELSE 1

\* the turn count scramble derives from a move name
scramble_dir(move) ==
    IF Contains(move, "2") THEN 2
    ELSE IF ~Contains(move, "'") THEN 1 ELSE 3

\* scramble(moves = Len(choices)), choices[k] being what the k-th call of
\* random.choice returns.  The state carried round the loop is the array,
\* last_move and (for the claims) the list of moves actually applied.
RECURSIVE scramble_loop(_, _, _, _)
scramble_loop(st, last_move, applied, choices) ==
    IF choices = <<>> THEN [stickers |-> st, applied |-> applied]
    ELSE LET move == Head(choices)
             skip == /\ last_move # <<>>
                     /\ move[1] = last_move[1]
                     /\ (scramble_dir(move) + scramble_dir(last_move)) % 4 = 0
         IN  IF skip
             THEN scramble_loop(st, last_move, applied, Tail(choices))
             ELSE scramble_loop(apply_move(st, move), move,
                                Append(applied, move), Tail(choices))

scramble(st, choices) == scramble_loop(st, <<>>, <<>>, choices)

\* replaying a move sequence, move by move
\* (st = st has the array computed before the next move is taken)
RECURSIVE ReplayFrom(_, _, _)
ReplayFrom(st, seq, k) ==
    IF st = st /\ k <= Len(seq)
    THEN ReplayFrom(apply_move(st, seq[k]), seq, k + 1)
    ELSE st

Replay(st, seq) == ReplayFrom(st, seq, 1)

(***************************************************************************)
(* LayerByLayerSolver._simplify_moves.                                     *)
(***************************************************************************)
\* mutant: a prime suffix read as a clockwise quarter turn
normalize_move_prime_as_one(move) ==
    IF Len(move) = 1 THEN <<move, 1>>
    ELSE IF EndsWith(move, "'") THEN << <<move[1]>>, 1>>
    ELSE IF EndsWith(move, "2") THEN << <<move[1]>>, 2>>
    ELSE <<move, 1>>

\* normalize_move: the pair (face, turn count)
normalize_move(move) ==
    IF Len(move) = 1 THEN <<move, 1>>
    ELSE IF EndsWith(move, "'") THEN << <<move[1]>>, 3>>
    ELSE IF EndsWith(move, "2") THEN << <<move[1]>>, 2>>
    ELSE <<move, 1>>

\* mutant: a pair that cancels leaves a quarter turn behind
emit_no_cancel(out, face, dir) ==
    IF dir = 1 \/ dir = 0 THEN Append(out, face)
    ELSE IF dir = 2 THEN Append(out, Concat(face, <<"2">>))
    ELSE Append(out, Concat(face, <<"'">>))

\* the if/elif chain that appends the move of a face and a turn count to
\* the output list; a turn count of 0 appends nothing
emit(out, face, dir) ==
    IF dir = 1 THEN Append(out, face)
    ELSE IF dir = 2 THEN Append(out, Concat(face, <<"2">>))
    ELSE IF dir = 3 THEN Append(out, Concat(face, <<"'">>))
    ELSE out

\* mutant: a move followed by a move on another face is emitted under the
\* other move's face
RECURSIVE simplify_pass_next_face(_, _, _)
simplify_pass_next_face(list, i, out) ==
    IF ~(i < Len(list)) THEN out
    ELSE LET cur == normalize_move(list[i + 1])
         IN  IF i + 1 < Len(list)
             THEN LET nxt == normalize_move(list[i + 2])
                  IN  IF cur[1] = nxt[1]
                      THEN simplify_pass_next_face(list, i + 2,
                               emit(out, cur[1], (cur[2] + nxt[2]) % 4))
                      ELSE simplify_pass_next_face(list, i + 1,
                               emit(out, nxt[1], cur[2]))
             ELSE simplify_pass_next_face(list, i + 1, emit(out, cur[1], cur[2]))

\* the while loop: one pass over the list from index i, out being the list
\* `simplified` built so far
RECURSIVE simplify_pass(_, _, _)
simplify_pass(list, i, out) ==
    IF ~(i < Len(list)) THEN out
    ELSE LET cur == normalize_move(list[i + 1])
         IN  IF i + 1 < Len(list)
             THEN LET nxt == normalize_move(list[i + 2])
                  IN  IF cur[1] = nxt[1]
                      THEN simplify_pass(list, i + 2,
                               emit(out, cur[1], (cur[2] + nxt[2]) % 4))
                      ELSE simplify_pass(list, i + 1,
                               emit(out, cur[1], cur[2]))
             ELSE simplify_pass(list, i + 1, emit(out, cur[1], cur[2]))

\* mutant: one pass only, no further reduction of its output
_simplify_moves_one_pass(list) ==
    IF list = <<>> THEN <<>> ELSE simplify_pass(list, 0, <<>>)

\* mutant: the output is reduced further only when the pass removed at
\* least two moves
RECURSIVE _simplify_moves_off_by_one(_)
_simplify_moves_off_by_one(list) ==
    IF list = <<>> THEN <<>>
    ELSE LET out == simplify_pass(list, 0, <<>>)
         IN  IF Len(out) < Len(list) - 1
             THEN _simplify_moves_off_by_one(out) ELSE out

RECURSIVE _simplify_moves(_)
_simplify_moves(list) ==
    IF list = <<>> THEN <<>>
    ELSE LET out == simplify_pass(list, 0, <<>>)
         IN  IF Len(out) < Len(list) THEN _simplify_moves(out) ELSE out

(***************************************************************************)
(* LayerByLayerSolver.  A solver state s is the record                     *)
(*   [cube |-> working_cube.stickers, sol |-> self.solution, err |-> e]    *)
(* where e is "none" or the name of the exception that is propagating.     *)
(* Every stage method is an operator from solver states to solver states;  *)
(* once an exception propagates nothing more is done.                      *)
(***************************************************************************)
MAX_ITERATIONS_PER_STEP == 50

\* the move names used by the stages
mU == <<"U">>
mUp == <<"U", "'">>
mU2 == <<"U", "2">>
mD == <<"D">>
mDp == <<"D", "'">>
mL == <<"L">>
mLp == <<"L", "'">>
mL2 == <<"L", "2">>
mR == <<"R">>
mRp == <<"R", "'">>
mR2 == <<"R", "2">>
mF == <<"F">>
mFp == <<"F", "'">>
mF2 == <<"F", "2">>
mB == <<"B">>
mBp == <<"B", "'">>
mB2 == <<"B", "2">>

SideFaces == {"F", "R", "B", "L"}

Raise(s, e) == [s EXCEPT !.err = e]

\* not an exception: the mark of a loop that never ends
Hang == "Hang"

\* mutant: the move is applied to the cube and not appended to the log
Do_unlogged(s, move) ==
    [s EXCEPT !.cube = apply_move(s.cube, move)]

\* cube.apply_move(move); self.solution.append(move)
Do(s, move) ==
    [s EXCEPT !.cube = apply_move(s.cube, move), !.sol = Append(s.sol, move)]

\* for move in moves: cube.apply_move(move); self.solution.append(move)
RECURSIVE DoAll(_, _)
DoAll(s, list) ==
    IF list = <<>> THEN s ELSE DoAll(Do(s, Head(list)), Tail(list))

(***************************************************************************)
(* _safe_while_loop and the two pairs of closures it is called with.  A    *)
(* loop state ls is a solver state with the closure's nonlocal face2; lp   *)
(* names the closure pair and holds the enclosing method's variables.      *)
(***************************************************************************)
\* condition(): `not (face2 == target_face)` in _handle_edge_on_u_face,
\* `not (other_face == target_face)` in _handle_edge_on_d_face
condition_func(lp, ls) ==
    IF lp.kind = "u" THEN ~(ls.face2 = lp.target_face)
    ELSE ~(lp.other_face = lp.target_face)

\* action(): one turn of U (or D), recorded, then the edge located again
action_func(lp, ls) ==
    LET turned == Do(ls, IF lp.kind = "u" THEN mU ELSE mD)
        edge_info == find_edge(turned.cube, lp.white, lp.side_color)
    IN  IF edge_info # None THEN [turned EXCEPT !.face2 = edge_info[4]]
        ELSE turned

\* the while loop and the test after it; an exception raised by the action
\* would leave the loop at once
RECURSIVE safe_loop_from(_, _, _)
safe_loop_from(lp, ls, iterations) ==
    IF condition_func(lp, ls) /\ iterations < MAX_ITERATIONS_PER_STEP
    THEN LET acted == action_func(lp, ls)
         IN  IF acted.err # "none" THEN acted
             ELSE safe_loop_from(lp, acted, iterations + 1)
    ELSE IF iterations >= MAX_ITERATIONS_PER_STEP
         THEN Raise(ls, "RuntimeError") ELSE ls

_safe_while_loop(lp, ls) == safe_loop_from(lp, ls, 0)

\* the solver state of a loop state
Unloop(ls) == [cube |-> ls.cube, sol |-> ls.sol, err |-> ls.err]

(***************************************************************************)
(* Stage 1: _solve_white_cross.                                            *)
(***************************************************************************)
white_edges == << <<0, 4, "F">>, <<0, 3, "R">>, <<0, 5, "B">>, <<0, 2, "L">> >>

\* the insertion of _handle_edge_on_u_face and _handle_edge_on_d_face; with
\* no branch taken `moves` is unbound
insert_edge(s, target_face) ==
    IF target_face = "F" THEN DoAll(s, <<mF2>>)
    ELSE IF target_face = "R" THEN DoAll(s, <<mR2>>)
    ELSE IF target_face = "B" THEN DoAll(s, <<mB2>>)
    ELSE IF target_face = "L" THEN DoAll(s, <<mL2>>)
    ELSE Raise(s, "UnboundLocalError")

_handle_edge_on_u_face(s, white, side_color, target_face) ==
    LET edge_info == find_edge(s.cube, white, side_color)
    IN  IF edge_info = None THEN s
        ELSE LET lp == [kind |-> "u", white |-> white, side_color |-> side_color,
                        target_face |-> target_face, other_face |-> ""]
                 ls == [cube |-> s.cube, sol |-> s.sol, err |-> s.err,
                        face2 |-> edge_info[4]]
                 after == Unloop(_safe_while_loop(lp, ls))
             IN  IF after.err # "none" THEN after
                 ELSE insert_edge(after, target_face)

\* the 4-move setup of _handle_edge_in_middle_layer, by face1 and c1
middle_layer_moves(face1, c1) ==
    IF face1 = "F" THEN (IF c1 = 0 THEN <<mLp, mUp, mL, mU>> ELSE <<mR, mU, mRp, mUp>>)
    ELSE IF face1 = "R" THEN (IF c1 = 0 THEN <<mF, mU, mFp, mUp>> ELSE <<mBp, mUp, mB, mU>>)
    ELSE IF face1 = "B" THEN (IF c1 = 0 THEN <<mRp, mUp, mR, mU>> ELSE <<mL, mU, mLp, mUp>>)
    ELSE IF face1 = "L" THEN (IF c1 = 0 THEN <<mB, mU, mBp, mUp>> ELSE <<mFp, mUp, mF, mU>>)
    ELSE None

_handle_edge_in_middle_layer(s, white, side_color, target_face, face1, c1) ==
    IF face1 \notin SideFaces THEN Raise(s, "UnboundLocalError")
    ELSE _handle_edge_on_u_face(DoAll(s, middle_layer_moves(face1, c1)),
                                white, side_color, target_face)

_handle_edge_on_d_face(s, white, side_color, target_face) ==
    LET edge_info == find_edge(s.cube, white, side_color)
    IN  IF edge_info = None THEN s
        ELSE LET face1 == edge_info[1]
                 face2 == edge_info[4]
                 white_face ==
                     IF get_sticker(s.cube, face1, edge_info[2], edge_info[3]) = white
                     THEN face1 ELSE face2
                 other_face == IF white_face = face1 THEN face2 ELSE face1
                 lp == [kind |-> "d", white |-> white, side_color |-> side_color,
                        target_face |-> target_face, other_face |-> other_face]
                 ls == [cube |-> s.cube, sol |-> s.sol, err |-> s.err,
                        face2 |-> face2]
                 after == Unloop(_safe_while_loop(lp, ls))
             IN  IF after.err # "none" THEN after
                 ELSE insert_edge(after, target_face)

RECURSIVE _position_white_edge_safely(_, _, _, _)

_handle_edge_other_position(s, white, side_color, target_face) ==
    _position_white_edge_safely(DoAll(s, <<mF, mR, mU, mRp, mUp, mFp>>),
                                white, side_color, target_face)

_position_white_edge_safely(s, white, side_color, target_face) ==
    LET edge_info == find_edge(s.cube, white, side_color)
    IN  IF edge_info = None THEN s
        ELSE LET face1 == edge_info[1]
                 face2 == edge_info[4]
             IN  IF /\ face1 = "U" /\ edge_info[2] = 2 /\ edge_info[3] = 1
                    /\ face2 = target_face /\ edge_info[5] = 0 /\ edge_info[6] = 1
                 THEN s
                 ELSE IF face1 = "U"
                 THEN _handle_edge_on_u_face(s, white, side_color, target_face)
                 ELSE IF face1 \in SideFaces /\ face2 \in SideFaces
                 THEN _handle_edge_in_middle_layer(s, white, side_color,
                          target_face, face1, edge_info[3])
                 ELSE IF face1 = "D" \/ face2 = "D"
                 THEN _handle_edge_on_d_face(s, white, side_color, target_face)
                 ELSE _handle_edge_other_position(s, white, side_color, target_face)

RECURSIVE white_cross_from(_, _)
white_cross_from(s, k) ==
    IF k > Len(white_edges) \/ s.err # "none" THEN s
    ELSE white_cross_from(
             _position_white_edge_safely(s, white_edges[k][1], white_edges[k][2],
                                         white_edges[k][3]),
             k + 1)

_solve_white_cross(s) == white_cross_from(s, 1)

(***************************************************************************)
(* Stage 2: _solve_first_layer.                                            *)
(***************************************************************************)
corners == << <<0, 4, 3>>, <<0, 3, 5>>, <<0, 5, 2>>, <<0, 2, 4>> >>

\* dict.get: the face of a side colour, NoFace (None) for any other colour
NoFace == "None"

color_to_face_get(color) ==
    IF color = 4 THEN "F" ELSE IF color = 3 THEN "R"
    ELSE IF color = 5 THEN "B" ELSE IF color = 2 THEN "L" ELSE NoFace

_get_target_faces_for_corner(color1, color2) ==
    LET face1 == color_to_face_get(color1)
        face2 == color_to_face_get(color2)
    IN  IF face1 = "F" /\ face2 = "R" THEN <<"F", "R">>
        ELSE IF face1 = "R" /\ face2 = "B" THEN <<"R", "B">>
        ELSE IF face1 = "B" /\ face2 = "L" THEN <<"B", "L">>
        ELSE IF face1 = "L" /\ face2 = "F" THEN <<"L", "F">>
        ELSE IF face2 # NoFace /\ face1 # NoFace THEN <<face2, face1>>
        ELSE <<>>

\* the faces of a corner slot other than D, as a set
other_faces(corner_info) ==
    {f \in {corner_info[1], corner_info[4], corner_info[7]} : f # "D"}

_is_corner_in_position(cube, white, color1, color2, target_faces) ==
    IF Len(target_faces) # 2 THEN FALSE
    ELSE LET corner_info == find_corner(cube, white, color1, color2)
         IN  IF corner_info = None THEN FALSE
             ELSE IF "D" \notin {corner_info[1], corner_info[4], corner_info[7]}
             THEN FALSE
             ELSE other_faces(corner_info) = Range(target_faces)

\* the while loop of _handle_corner_on_d_face
RECURSIVE corner_d_loop(_, _, _, _, _, _)
corner_d_loop(s, white, color1, color2, target_faces, rotation_count) ==
    IF ~(rotation_count < 4) THEN s
    ELSE LET corner_info == find_corner(s.cube, white, color1, color2)
         IN  IF corner_info = None THEN s
             ELSE IF other_faces(corner_info) = Range(target_faces) THEN s
             ELSE corner_d_loop(Do(s, mD), white, color1, color2, target_faces,
                                rotation_count + 1)

corner_d_moves(target_faces) ==
    IF target_faces = <<"F", "R">> THEN <<mRp, mDp, mR, mD>>
    ELSE IF target_faces = <<"R", "B">> THEN <<mBp, mDp, mB, mD>>
    ELSE IF target_faces = <<"B", "L">> THEN <<mLp, mDp, mL, mD>>
    ELSE IF target_faces = <<"L", "F">> THEN <<mFp, mDp, mF, mD>>
    ELSE <<mRp, mDp, mR, mD>>

_handle_corner_on_d_face(s, white, color1, color2, target_faces) ==
    DoAll(corner_d_loop(s, white, color1, color2, target_faces, 0),
          corner_d_moves(target_faces))

corner_u_moves(target_faces) ==
    IF target_faces = <<"F", "R">> THEN <<mRp, mDp, mR>>
    ELSE IF target_faces = <<"R", "B">> THEN <<mBp, mDp, mB>>
    ELSE IF target_faces = <<"B", "L">> THEN <<mLp, mDp, mL>>
    ELSE IF target_faces = <<"L", "F">> THEN <<mFp, mDp, mF>>
    ELSE <<mRp, mDp, mR>>

_handle_corner_on_u_face(s, white, color1, color2, target_faces) ==
    _handle_corner_on_d_face(DoAll(s, corner_u_moves(target_faces)),
                             white, color1, color2, target_faces)

_position_white_corner_safely(s, white, color1, color2) ==
    LET corner_info == find_corner(s.cube, white, color1, color2)
    IN  IF corner_info = None THEN s
        ELSE LET target_faces == _get_target_faces_for_corner(color1, color2)
                 faces == {corner_info[1], corner_info[4], corner_info[7]}
             IN  IF _is_corner_in_position(s.cube, white, color1, color2, target_faces)
                 THEN s
                 ELSE IF "D" \in faces
                 THEN _handle_corner_on_d_face(s, white, color1, color2, target_faces)
                 ELSE IF "U" \in faces
                 THEN _handle_corner_on_u_face(s, white, color1, color2, target_faces)
                 ELSE s

RECURSIVE first_layer_from(_, _)
first_layer_from(s, k) ==
    IF k > Len(corners) \/ s.err # "none" THEN s
    ELSE first_layer_from(
             _position_white_corner_safely(s, corners[k][1], corners[k][2],
                                           corners[k][3]),
             k + 1)

_solve_first_layer(s) == first_layer_from(s, 1)

(***************************************************************************)
(* Stage 3: _solve_second_layer.                                           *)
(***************************************************************************)
edges == << <<4, 3, "F", "R">>, <<3, 5, "R", "B">>,
            <<5, 2, "B", "L">>, <<2, 4, "L", "F">> >>

_is_middle_edge_correct(cube, color1, color2, target_face1, target_face2) ==
    LET edge_info == find_edge(cube, color1, color2)
    IN  IF edge_info = None THEN FALSE
        ELSE IF ~({edge_info[1], edge_info[4]} = {target_face1, target_face2})
        THEN FALSE
        ELSE edge_info[2] = 1 \/ edge_info[5] = 1

\* the while loop of _handle_edge_on_u_for_middle, then the moves it chose
\* (none when the loop ended without choosing)
RECURSIVE edge_u_middle_loop(_, _, _, _, _, _)
edge_u_middle_loop(s, color1, color2, target_face1, target_face2, rotation_count) ==
    IF ~(rotation_count < 4) THEN s
    ELSE LET edge_info == find_edge(s.cube, color1, color2)
         IN  IF edge_info = None THEN s
             ELSE LET non_u_face ==
                          IF edge_info[1] # "U" THEN edge_info[1] ELSE edge_info[4]
                  IN  IF non_u_face = target_face1
                      THEN DoAll(s, <<mUp, mLp, mU, mL, mU, mF, mUp, mFp>>)
                      ELSE IF non_u_face = target_face2
                      THEN DoAll(s, <<mU, mR, mUp, mRp, mUp, mFp, mU, mF>>)
                      ELSE edge_u_middle_loop(Do(s, mU), color1, color2,
                               target_face1, target_face2, rotation_count + 1)

_handle_edge_on_u_for_middle(s, color1, color2, target_face1, target_face2) ==
    edge_u_middle_loop(s, color1, color2, target_face1, target_face2, 0)

misplaced_moves(target_face1, target_face2) ==
    IF target_face1 = "F" /\ target_face2 = "R"
    THEN <<mU, mR, mUp, mRp, mUp, mFp, mU, mF>>
    ELSE IF target_face1 = "R" /\ target_face2 = "B"
    THEN <<mU, mB, mUp, mBp, mUp, mRp, mU, mR>>
    ELSE IF target_face1 = "B" /\ target_face2 = "L"
    THEN <<mU, mL, mUp, mLp, mUp, mBp, mU, mB>>
    ELSE IF target_face1 = "L" /\ target_face2 = "F"
    THEN <<mU, mF, mUp, mFp, mUp, mLp, mU, mL>>
    ELSE <<mU, mR, mUp, mRp, mUp, mFp, mU, mF>>

_handle_misplaced_middle_edge(s, color1, color2, target_face1, target_face2) ==
    _handle_edge_on_u_for_middle(DoAll(s, misplaced_moves(target_face1, target_face2)),
                                 color1, color2, target_face1, target_face2)

_position_middle_edge_safely(s, color1, color2, target_face1, target_face2) ==
    LET edge_info == find_edge(s.cube, color1, color2)
    IN  IF edge_info = None THEN s
        ELSE IF _is_middle_edge_correct(s.cube, color1, color2, target_face1, target_face2)
        THEN s
        ELSE IF edge_info[1] = "U" \/ edge_info[4] = "U"
        THEN _handle_edge_on_u_for_middle(s, color1, color2, target_face1, target_face2)
        ELSE _handle_misplaced_middle_edge(s, color1, color2, target_face1, target_face2)

RECURSIVE second_layer_from(_, _)
second_layer_from(s, k) ==
    IF k > Len(edges) \/ s.err # "none" THEN s
    ELSE second_layer_from(
             _position_middle_edge_safely(s, edges[k][1], edges[k][2],
                                          edges[k][3], edges[k][4]),
             k + 1)

_solve_second_layer(s) == second_layer_from(s, 1)

(***************************************************************************)
(* Stage 4: _solve_yellow_cross.                                           *)
(***************************************************************************)
cross_positions == << <<0, 1>>, <<1, 0>>, <<1, 2>>, <<2, 1>> >>

\* the number of the given U positions that show colour 1
yellow_count_of(cube, positions) ==
    Cardinality({k \in 1..Len(positions) :
                    get_sticker(cube, "U", positions[k][1], positions[k][2]) = 1})

cross_moves == <<mF, mR, mU, mRp, mUp, mFp>>

\* `for _ in range(3)`: the algorithm, then the count again, leaving the
\* loop as soon as it is 2 or more
RECURSIVE cross_dot_loop(_, _)
cross_dot_loop(s, k) ==
    IF k >= 3 THEN s
    ELSE LET after == DoAll(s, cross_moves)
         IN  IF yellow_count_of(after.cube, cross_positions) >= 2 THEN after
             ELSE cross_dot_loop(after, k + 1)

_solve_yellow_cross(s) ==
    LET s1 == IF yellow_count_of(s.cube, cross_positions) = 0
              THEN cross_dot_loop(s, 0) ELSE s
        edge_positions == [k \in 1..4 |->
            get_sticker(s1.cube, "U", cross_positions[k][1], cross_positions[k][2]) = 1]
    IN  IF yellow_count_of(s1.cube, cross_positions) = 2
        THEN DoAll(IF edge_positions = <<FALSE, TRUE, FALSE, TRUE>>
                   THEN Do(s1, mU) ELSE s1,
                   cross_moves)
        ELSE s1

(***************************************************************************)
(* Stage 5: _orient_yellow_corners.                                        *)
(***************************************************************************)
corner_positions == << <<0, 0>>, <<0, 2>>, <<2, 0>>, <<2, 2>> >>

orient_moves == <<mR, mU, mRp, mU, mR, mU2, mRp>>

\* while cube.get_sticker('U', 2, 2) == 1: a U turn, recorded.  The loop has
\* no bound.  Four U turns bring the array back to what it was, so a test
\* that has held four times in a row holds for ever: the loop never ends
\* and the call never returns, which the model writes as Hang
RECURSIVE orient_align_from(_, _)
orient_align_from(s, turns) ==
    IF get_sticker(s.cube, "U", 2, 2) = 1
    THEN IF turns >= 4 THEN Raise(s, Hang)
         ELSE orient_align_from(Do(s, mU), turns + 1)
    ELSE s

\* mutant: the test of the loop is inverted, turning while the facelet is
\* not yellow
RECURSIVE orient_align_until_yellow_from(_, _)
orient_align_until_yellow_from(s, turns) ==
    IF get_sticker(s.cube, "U", 2, 2) # 1
    THEN IF turns >= 4 THEN Raise(s, Hang)
         ELSE orient_align_until_yellow_from(Do(s, mU), turns + 1)
    ELSE s

orient_align_until_yellow(s) == orient_align_until_yellow_from(s, 0)

orient_align(s) == orient_align_from(s, 0)

\* mutant: running out of passes is fatal, as in _safe_while_loop
orient_exhausted_raises(s) == Raise(s, "RuntimeError")

\* the else clause of the for loop: a message is printed
orient_exhausted(s) == s

\* for _ in range(MAX_ITERATIONS_PER_STEP)
RECURSIVE orient_loop(_, _)
orient_loop(s, k) ==
    IF k >= MAX_ITERATIONS_PER_STEP THEN orient_exhausted(s)
    ELSE IF yellow_count_of(s.cube, corner_positions) = 4 THEN s
    ELSE LET aligned == orient_align(s)
         IN  IF aligned.err # "none" THEN aligned
             ELSE orient_loop(DoAll(aligned, orient_moves), k + 1)

_orient_yellow_corners(s) == orient_loop(s, 0)

(***************************************************************************)
(* Stage 6: _permute_yellow_corners.                                       *)
(***************************************************************************)
front_right_seated(cube) ==
    /\ get_sticker(cube, "F", 0, 2) = 4
    /\ get_sticker(cube, "R", 0, 0) = 3
    /\ get_sticker(cube, "U", 2, 2) = 1

\* the first `for i in range(4)`
RECURSIVE permute_seek(_, _)
permute_seek(s, i) ==
    IF i >= 4 \/ front_right_seated(s.cube) THEN s
    ELSE permute_seek(Do(s, mU), i + 1)

permute_moves == <<mRp, mF, mRp, mB2, mR, mFp, mRp, mB2, mR2>>

\* the second `for i in range(4)`: its test calls the builtin all with three
\* positional arguments; all takes exactly one, so the call raises TypeError
\* the first time the test is evaluated
permute_adjust(s) == Raise(s, "TypeError")

_permute_yellow_corners(s) ==
    permute_adjust(DoAll(permute_seek(s, 0), permute_moves))

(***************************************************************************)
(* Stage 7: _permute_yellow_edges.                                         *)
(***************************************************************************)
\* the measuring loop: r is [s, correct_count]
RECURSIVE measure_loop(_, _)
measure_loop(r, i) ==
    IF i >= 4 THEN r
    ELSE measure_loop(
             [s |-> Do(r.s, mU),
              correct_count |-> r.correct_count +
                  (IF get_sticker(r.s.cube, "F", 0, 1) = 4 THEN 1 ELSE 0)],
             i + 1)

\* while cube.get_sticker('F', 0, 1) != 4: a U turn, recorded; no bound
\* either, and Hang as in orient_align_from
RECURSIVE edges_align_from(_, _)
edges_align_from(s, turns) ==
    IF get_sticker(s.cube, "F", 0, 1) # 4
    THEN IF turns >= 4 THEN Raise(s, Hang)
         ELSE edges_align_from(Do(s, mU), turns + 1)
    ELSE s

edges_align(s) == edges_align_from(s, 0)

_permute_yellow_edges(s) ==
    LET r == measure_loop([s |-> s, correct_count |-> 0], 0)
        undone == DoAll(r.s, <<mUp, mUp, mUp, mUp>>)
    IN  IF r.correct_count = 0
        THEN DoAll(undone, <<mR2, mL2, mU, mR2, mL2, mU2, mR2, mL2, mU, mR2, mL2>>)
        ELSE IF r.correct_count = 1
        THEN LET aligned == edges_align(undone)
             IN  IF aligned.err # "none" THEN aligned
                 ELSE DoAll(aligned,
                            <<mR, mUp, mR, mU, mR, mU, mR, mUp, mRp, mUp, mR2>>)
        ELSE IF r.correct_count = 4 THEN undone
        ELSE Raise(undone, "UnboundLocalError")

(***************************************************************************)
(* LayerByLayerSolver.solve, stage by stage.  The _verify_ methods read    *)
(* the cube, append to step_verifications and print; they change neither   *)
(* the cube nor the log and raise nothing.                                 *)
(***************************************************************************)
run_stage(k, s) ==
    IF k = 1 THEN _solve_white_cross(s)
    ELSE IF k = 2 THEN _solve_first_layer(s)
    ELSE IF k = 3 THEN _solve_second_layer(s)
    ELSE IF k = 4 THEN _solve_yellow_cross(s)
    ELSE IF k = 5 THEN _orient_yellow_corners(s)
    ELSE IF k = 6 THEN _permute_yellow_corners(s)
    ELSE _permute_yellow_edges(s)

\* RubiksCube.copy: a new cube with a copy of the list
copy(st) == [i \in 0..53 |-> st[i]]

\* mutant: the except clause returns the move log instead of the empty list
solve_return_raw_log(s) == s.sol

\* what solve returns: the simplified log at the end of the try block, the
\* empty list from the except clause
solve_return(s) ==
    IF s.err = "none" THEN _simplify_moves(s.sol) ELSE <<>>

(***************************************************************************)
(* Specification Spec: the state engine.  A cube is constructed, given one *)
(* of the arrays of InitArrays, and then driven by apply_move, reset and   *)
(* scramble, MaxOps moves at most.                                         *)
(***************************************************************************)
EmptyDict == <<>>

\* arrays a cube is given at the start: the reset array and two arrays that
\* are no cube position (every colour still one of the six)
Striped == [i \in 0..53 |-> i % 6]
Banded == [i \in 0..53 |-> ((i \div 3) + (i % 3) * (i \div 9)) % 6]
InitArrays == {reset, Striped, Banded}

\* no scramble or is_solved call made yet
NoProbe ==
    /\ scramble_moves = 0
    /\ scramble_applied = <<>>
    /\ solved = FALSE

\* no cube object followed
NoHeap ==
    /\ cubes = <<>>
    /\ lists = <<>>
    /\ clone = 0

\* no call recorded, and solve not inside a stage
NoTrace ==
    /\ call = <<>>
    /\ found = None
    /\ piece = 0
    /\ n_iterations = 0

\* RubiksCubeGUI.__init__, and no thread started
NoGui ==
    /\ solving_in_progress = FALSE
    /\ gui_solution = <<>>
    /\ current_step = 0
    /\ auto_mode = FALSE
    /\ workers = <<>>

Idle ==
    /\ NoProbe
    /\ NoHeap
    /\ NoTrace
    /\ NoGui
    /\ moves = <<>>
    /\ simplified = <<>>
    /\ pc = "idle"
    /\ stage = 0
    /\ working_cube = reset
    /\ solution = <<>>
    /\ error = "none"
    /\ result = <<>>

others == <<moves, simplified, pc, stage, working_cube, solution, error, result>>

Init ==
    /\ MOVE_TABLES = _init_move_tables(EmptyDict)
    /\ start \in InitArrays
    /\ stickers = start
    /\ ops = 0
    /\ Idle

ApplyMove ==
    /\ ops < MaxOps
    /\ \E move \in DOMAIN MOVE_TABLES :
           stickers' = apply_move(stickers, move)
    /\ ops' = ops + 1
    /\ UNCHANGED <<MOVE_TABLES, start, others, probes, heap, trace, gui>>

Reset ==
    /\ ops < MaxOps
    /\ stickers' = reset
    /\ ops' = ops + 1
    /\ UNCHANGED <<MOVE_TABLES, start, others, probes, heap, trace, gui>>

\* scramble(count): all_moves is the list of the dict's keys
Scramble ==
    /\ \E count \in 0..(MaxOps - ops) :
         \E choices \in [1..count -> DOMAIN MOVE_TABLES] :
            /\ stickers' = scramble(stickers, choices).stickers
            /\ ops' = ops + count
    /\ UNCHANGED <<MOVE_TABLES, start, others, probes, heap, trace, gui>>

Next == ApplyMove \/ Reset \/ Scramble

Spec == Init /\ [][Next]_vars

\* the array after applying move n times in a row
RECURSIVE Repeat(_, _, _)
Repeat(st, move, n) ==
    IF n = 0 THEN st ELSE Repeat(apply_move(st, move), move, n - 1)

\* some engine operation has changed the array since the start
Moved == ops > 0 /\ stickers # start

(* C1: from every facelet array, each of the 18 moves applied four times   *)
(* in a row with apply_move gives back the array it started from.          *)
C1_FourTimes ==
    \A move \in DOMAIN MOVE_TABLES : Repeat(stickers, move, 4) = stickers

\* a moved array on which every move, applied once, twice and three times,
\* gives an array other than the one it started from
C1_Witness ==
    /\ Moved
    /\ \A move \in DOMAIN MOVE_TABLES : \A n \in 1..3 :
          (n # 2 \/ Len(move) = 1) => Repeat(stickers, move, n) # stickers

(* C2: from every facelet array and for every face letter X, X then X'     *)
(* gives back the array, and so does X' then X.                            *)
C2_InversePair ==
    \A face \in Range(base_moves) :
        LET X == <<face>>
            Xp == <<face, "'">>
        IN  /\ apply_move(apply_move(stickers, X), Xp) = stickers
            /\ apply_move(apply_move(stickers, Xp), X) = stickers

\* a moved array that every quarter turn, either way, changes
C2_Witness ==
    /\ Moved
    /\ \A face \in Range(base_moves) :
          /\ apply_move(stickers, <<face>>) # stickers
          /\ apply_move(stickers, <<face, "'">>) # stickers

(* C3: from every facelet array and for every face letter X, the half turn *)
(* X2 applied twice gives back the array.                                  *)
C3_HalfTwice ==
    \A face \in Range(base_moves) :
        LET X2 == <<face, "2">>
        IN  apply_move(apply_move(stickers, X2), X2) = stickers

\* a moved array that every half turn changes
C3_Witness ==
    /\ Moved
    /\ \A face \in Range(base_moves) :
          apply_move(stickers, <<face, "2">>) # stickers

(***************************************************************************)
(* Specification SpecSimplify: _simplify_moves called on a move list.  The *)
(* list is any sequence of at most MaxShort of the 18 moves, or of at most *)
(* MaxLen moves on the faces of SimplifyFaces; the replays start from one  *)
(* of the arrays of InitArrays.                                            *)
(***************************************************************************)
SimplifyFaces == {"U", "R"}

BoundedSeq(S, n) == UNION {[1..k -> S] : k \in 0..n}

SimplifyInputs ==
    BoundedSeq(DOMAIN BuiltTables, MaxShort)
        \cup BoundedSeq({mv \in DOMAIN BuiltTables : mv[1] \in SimplifyFaces}, MaxLen)

InitSimplify ==
    /\ MOVE_TABLES = _init_move_tables(EmptyDict)
    /\ start \in InitArrays
    /\ stickers = start
    /\ ops = 0
    /\ moves \in SimplifyInputs
    /\ simplified = <<>>
    /\ pc = "call"
    /\ stage = 0
    /\ working_cube = reset
    /\ solution = <<>>
    /\ error = "none"
    /\ result = <<>>
    /\ NoProbe
    /\ NoHeap
    /\ NoTrace
    /\ NoGui

Simplify ==
    /\ pc = "call"
    /\ simplified' = _simplify_moves(moves)
    /\ pc' = "returned"
    /\ UNCHANGED <<MOVE_TABLES, start, stickers, ops, moves, stage,
                   working_cube, solution, error, result, probes, heap, trace, gui>>

NextSimplify == Simplify

SpecSimplify == InitSimplify /\ [][NextSimplify]_vars

\* the face letters of a move list, in order
Faces(list) == [k \in 1..Len(list) |-> list[k][1]]

\* a is obtained from b by deleting entries
RECURSIVE IsSubsequence(_, _)
IsSubsequence(a, b) ==
    IF a = <<>> THEN TRUE
    ELSE IF b = <<>> THEN FALSE
    ELSE IF Head(a) = Head(b) THEN IsSubsequence(Tail(a), Tail(b))
    ELSE IsSubsequence(a, Tail(b))

\* the turn count a move name stands for: 1 for no modifier, 2 for the
\* modifier 2, 3 for the prime
TurnCount(move) ==
    IF Len(move) = 1 THEN 1 ELSE IF move[2] = "2" THEN 2 ELSE 3

\* the move of a face and a turn count 1, 2 or 3
MoveOf(face, n) ==
    IF n = 1 THEN <<face>> ELSE IF n = 2 THEN <<face, "2">> ELSE <<face, "'">>

AdjacentSameFace(list) ==
    \E k \in 1..(Len(list) - 1) : list[k][1] = list[k + 1][1]

(* C4: replaying a move sequence and replaying its simplification from the *)
(* same starting array give the same final array.                          *)
C4_SameNetEffect ==
    pc = "returned" => Replay(stickers, simplified) = Replay(stickers, moves)

\* a list that simplify shortened without emptying it, and whose replay
\* changes the array
C4_Witness ==
    /\ pc = "returned"
    /\ Len(simplified) > 0
    /\ Len(simplified) < Len(moves)
    /\ Replay(stickers, moves) # stickers

(* C5: simplify applied to its own output returns that output unchanged.   *)
C5_Idempotent ==
    pc = "returned" => _simplify_moves(simplified) = simplified

\* a list whose first pass leaves a pair that only a second pass removes
C5_Witness ==
    /\ pc = "returned"
    /\ AdjacentSameFace(simplify_pass(moves, 0, <<>>))
    /\ simplified # <<>>

(* C6: no two adjacent moves of simplify's output are on the same face.    *)
C6_FixedPoint ==
    pc = "returned" => ~AdjacentSameFace(simplified)

\* an input with adjacent moves on one face whose output has two or more moves
C6_Witness ==
    /\ pc = "returned"
    /\ AdjacentSameFace(moves)
    /\ Len(simplified) >= 2

(* C7: the face letters of simplify's output are a subsequence of the face *)
(* letters of its input.                                                   *)
C7_FacesSubsequence ==
    pc = "returned" => IsSubsequence(Faces(simplified), Faces(moves))

\* an input on two faces, shortened, whose output still has both faces
C7_Witness ==
    /\ pc = "returned"
    /\ Len(simplified) < Len(moves)
    /\ Cardinality(Range(Faces(simplified))) >= 2

(* C8: for two moves on one face with turn counts a and b, simplify gives  *)
(* the empty list when (a + b) mod 4 = 0 and otherwise the one move of     *)
(* that face with turn count (a + b) mod 4; U U' gives [], R R gives R2.   *)
C8_PairRule ==
    /\ (pc = "returned" /\ Len(moves) = 2 /\ moves[1][1] = moves[2][1]) =>
          LET total == (TurnCount(moves[1]) + TurnCount(moves[2])) % 4
          IN  simplified =
                IF total = 0 THEN <<>> ELSE <<MoveOf(moves[1][1], total)>>
    /\ (pc = "returned" /\ moves = << <<"U">>, <<"U", "'">> >>) =>
          simplified = <<>>
    /\ (pc = "returned" /\ moves = << <<"R">>, <<"R">> >>) =>
          simplified = << <<"R", "2">> >>

\* the two-move list R2 R', merged into the single move R
C8_Witness ==
    /\ pc = "returned"
    /\ moves = << <<"R", "2">>, <<"R", "'">> >>
    /\ simplified = << <<"R">> >>

(***************************************************************************)
(* Specification SpecSolve: a cube is constructed (the reset array), is    *)
(* scrambled or not, and solve is called on it.  solve runs its stages one *)
(* after the other on its private copy.                                    *)
(***************************************************************************)
LastStage == 7

InitSolve ==
    /\ MOVE_TABLES = _init_move_tables(EmptyDict)
    /\ start = reset
    /\ stickers = start
    /\ ops = 0
    /\ moves = <<>>
    /\ simplified = <<>>
    /\ pc = "idle"
    /\ stage = 0
    /\ working_cube = reset
    /\ solution = <<>>
    /\ error = "none"
    /\ result = <<>>
    /\ NoProbe
    /\ NoHeap
    /\ NoTrace
    /\ NoGui

\* cube.scramble(count), once, on the new cube
ScrambleFirst ==
    /\ pc = "idle"
    /\ ops = 0
    /\ \E count \in 0..MaxScramble :
         \E choices \in [1..count -> DOMAIN MOVE_TABLES] :
            stickers' = scramble(stickers, choices).stickers
    /\ ops' = 1
    /\ UNCHANGED <<MOVE_TABLES, start, others, probes, heap, trace, gui>>

\* the moves a caller turns by hand after the scramble
TurnMoves == {mD}

\* cube.apply_move(move), once, after the scramble
TurnFirst ==
    /\ pc = "idle"
    /\ ops = 1
    /\ \E move \in TurnMoves : stickers' = apply_move(stickers, move)
    /\ ops' = 2
    /\ UNCHANGED <<MOVE_TABLES, start, others, probes, heap, trace, gui>>

\* solve(cube): the lines before the try block
SolveCall ==
    /\ pc = "idle"
    /\ pc' = "try"
    /\ stage' = 1
    /\ solution' = <<>>
    /\ working_cube' = copy(stickers)
    /\ MOVE_TABLES' = _init_move_tables(MOVE_TABLES)
    /\ error' = "none"
    /\ UNCHANGED <<start, stickers, ops, moves, simplified, result, probes, heap, trace, gui>>

\* mutant: solve works on the cube it was given instead of on the copy
SolveStage_on_original ==
    /\ pc = "try"
    /\ error = "none"
    /\ stage \in 1..LastStage
    /\ LET s == run_stage(stage, [cube |-> working_cube, sol |-> solution,
                                  err |-> error])
       IN  /\ working_cube' = s.cube
           /\ stickers' = s.cube
           /\ solution' = s.sol
           /\ error' = s.err
    /\ stage' = stage + 1
    /\ UNCHANGED <<MOVE_TABLES, start, ops, moves, simplified, pc,
                   result, probes, heap, trace, gui>>

\* mutant: the next stage runs although an exception was raised
SolveStage_ignores_error ==
    /\ pc = "try"
    /\ stage \in 1..LastStage
    /\ LET s == run_stage(stage, [cube |-> working_cube, sol |-> solution,
                                  err |-> "none"])
       IN  /\ working_cube' = s.cube
           /\ solution' = s.sol
           /\ error' = s.err
    /\ stage' = stage + 1
    /\ UNCHANGED <<MOVE_TABLES, start, stickers, ops, moves, simplified, pc,
                   result, probes, heap, trace, gui>>

\* the next stage of the try block, unless an exception is propagating
SolveStage ==
    /\ pc = "try"
    /\ error = "none"
    /\ stage \in 1..LastStage
    /\ LET s == run_stage(stage, [cube |-> working_cube, sol |-> solution,
                                  err |-> error])
       IN  /\ working_cube' = s.cube
           /\ solution' = s.sol
           /\ error' = s.err
    /\ stage' = stage + 1
    /\ UNCHANGED <<MOVE_TABLES, start, stickers, ops, moves, simplified, pc,
                   result, probes, heap, trace, gui>>

\* the end of the try block, or the except clause; a call that is inside a
\* loop that never ends does not get there
SolveReturn ==
    /\ pc = "try"
    /\ error # "none" \/ stage > LastStage
    /\ error # Hang
    /\ result' = solve_return([cube |-> working_cube, sol |-> solution,
                               err |-> error])
    /\ pc' = "returned"
    /\ UNCHANGED <<MOVE_TABLES, start, stickers, ops, moves, simplified, stage,
                   working_cube, solution, error, probes, heap, trace, gui>>

NextSolve == ScrambleFirst \/ TurnFirst \/ SolveCall \/ SolveStage \/ SolveReturn

SpecSolve == InitSolve /\ [][NextSolve]_vars

(* C9: for every state reached from the reset state by a scramble,         *)
(* replaying the sequence solve returned for it against that same state    *)
(* yields a state for which is_solved is true.                             *)
C9_SolveSolves ==
    (pc = "returned" /\ ops = 1) => is_solved(Replay(stickers, result))

(* C10: solve called on a freshly reset state returns an empty sequence.   *)
C10_ResetGivesEmpty ==
    (pc = "returned" /\ stickers = reset) => result = <<>>

\* solve has returned for the reset array, after its stages recorded moves
C10_Witness ==
    /\ pc = "returned"
    /\ stickers = reset
    /\ is_solved(stickers)
    /\ Len(solution) > 0

(* C11: solve never changes the state it is given.  Every step of a solve  *)
(* call (entering the try block, a stage, the return through either exit)  *)
(* leaves the caller's facelet array as it was; the stage moves go to the   *)
(* private copy.                                                           *)
C11_CallerUntouched ==
    [][pc' \in {"try", "returned"} => stickers' = stickers]_vars

\* solve has returned for a scrambled cube after its stages moved the copy
C11_Witness ==
    /\ pc = "returned"
    /\ stickers # reset
    /\ working_cube # stickers
    /\ Len(solution) > 0

(* C12: if no bounded corrective loop exhausts its iteration budget during *)
(* a solve call, the call runs all seven stages and returns the simplified *)
(* move log; nothing else inside a stage aborts the pipeline.              *)
C12_OnlyBudgetAborts ==
    (pc = "returned" /\ error # "RuntimeError")
        => (error = "none" /\ result = _simplify_moves(solution))

(* C13: if a bounded corrective loop exhausts its iteration budget, the    *)
(* call aborts at that point: no later stage runs, the log and the clone   *)
(* stay as the loop left them, and the empty list is returned, not the     *)
(* partial log.                                                            *)
C13_BudgetAborts ==
    /\ []((pc = "returned" /\ error = "RuntimeError") => result = <<>>)
    /\ [][error = "RuntimeError"
            => /\ solution' = solution
               /\ working_cube' = working_cube
               /\ stage' = stage
               /\ error' = error]_vars

\* solve has returned after a loop used its whole budget in an early stage
C13_Witness ==
    /\ pc = "returned"
    /\ error = "RuntimeError"
    /\ stage <= LastStage
    /\ Len(solution) >= MAX_ITERATIONS_PER_STEP

(***************************************************************************)
(* Specification SpecGUI: the presentation layer.  The main thread handles *)
(* one event at a time (a button or a key); every solve_thread started by  *)
(* solve_cube runs beside it, one statement at a time.  ops counts the     *)
(* events that changed something.                                          *)
(***************************************************************************)
MaxGuiOps == 5      \* events with an effect per behaviour

\* the move keys pressed and the outcomes of random.choice in a scramble
KeyMoves == {mU}
GuiChoices == {mR}
GuiScrambleCounts == {1}

\* solve as one call: the stages in order, until one raises
RECURSIVE solve_stages(_, _)
solve_stages(s, k) ==
    IF k > LastStage \/ s.err # "none" THEN s
    ELSE solve_stages(run_stage(k, s), k + 1)

solve(cube) ==
    solve_return(solve_stages([cube |-> copy(cube), sol |-> <<>>,
                               err |-> "none"], 1))

\* the threads that have been started and have not yet cleared the flag
InFlight == {i \in 1..Len(workers) : workers[i].pc # "done"}

InitGUI ==
    /\ MOVE_TABLES = _init_move_tables(EmptyDict)
    /\ start = reset
    /\ stickers = start
    /\ ops = 0
    /\ Idle

\* solve_cube: the button, or SPACE while no solve is in progress
SolveCube ==
    IF solving_in_progress \/ is_solved(stickers) THEN UNCHANGED vars
    ELSE /\ ops < MaxGuiOps
         /\ solving_in_progress' = TRUE
         /\ workers' = Append(workers, [pc |-> "started", solution |-> <<>>])
         /\ ops' = ops + 1
         /\ UNCHANGED <<MOVE_TABLES, start, stickers, others, probes, heap, trace,
                        gui_solution, current_step, auto_mode>>

\* solve_thread: solution = self.solver.solve(self.cube.copy()); each of the
\* two copy() calls constructs a cube, which runs _init_move_tables
WorkerSolve ==
    \E i \in 1..Len(workers) :
        /\ workers[i].pc = "started"
        /\ workers' = [workers EXCEPT ![i] =
               [pc |-> "solved", solution |-> solve(copy(stickers))]]
        /\ MOVE_TABLES' = _init_move_tables(_init_move_tables(MOVE_TABLES))
        /\ UNCHANGED <<start, stickers, ops, others, probes, heap, trace,
                       solving_in_progress, gui_solution, current_step, auto_mode>>

\* solve_thread: self.solution = solution
WorkerPublish ==
    \E i \in 1..Len(workers) :
        /\ workers[i].pc = "solved"
        /\ gui_solution' = workers[i].solution
        /\ workers' = [workers EXCEPT ![i].pc = "published"]
        /\ UNCHANGED <<MOVE_TABLES, start, stickers, ops, others, probes, heap, trace,
                       solving_in_progress, current_step, auto_mode>>

\* solve_thread: self.current_step = 0
WorkerRewind ==
    \E i \in 1..Len(workers) :
        /\ workers[i].pc = "published"
        /\ current_step' = 0
        /\ workers' = [workers EXCEPT ![i].pc = "rewound"]
        /\ UNCHANGED <<MOVE_TABLES, start, stickers, ops, others, probes, heap, trace,
                       solving_in_progress, gui_solution, auto_mode>>

\* solve_thread: self.auto_mode = True
WorkerAuto ==
    \E i \in 1..Len(workers) :
        /\ workers[i].pc = "rewound"
        /\ auto_mode' = TRUE
        /\ workers' = [workers EXCEPT ![i].pc = "auto"]
        /\ UNCHANGED <<MOVE_TABLES, start, stickers, ops, others, probes, heap, trace,
                       solving_in_progress, gui_solution, current_step>>

\* mutant: the thread ends without clearing the flag
WorkerClear_keeps_flag ==
    \E i \in 1..Len(workers) :
        /\ workers[i].pc = "auto"
        /\ workers' = [workers EXCEPT ![i].pc = "done"]
        /\ UNCHANGED <<MOVE_TABLES, start, stickers, ops, others, probes, heap, trace,
                       solving_in_progress, gui_solution, current_step, auto_mode>>

\* solve_thread: self.solving_in_progress = False, and the thread ends
WorkerClear ==
    \E i \in 1..Len(workers) :
        /\ workers[i].pc = "auto"
        /\ solving_in_progress' = FALSE
        /\ workers' = [workers EXCEPT ![i].pc = "done"]
        /\ UNCHANGED <<MOVE_TABLES, start, stickers, ops, others, probes, heap, trace,
                       gui_solution, current_step, auto_mode>>

\* scramble_cube(moves): a button, or S while no solve is in progress
ScrambleCube ==
    IF solving_in_progress THEN UNCHANGED vars
    ELSE /\ ops < MaxGuiOps
         /\ \E count \in GuiScrambleCounts :
              \E choices \in [1..count -> GuiChoices] :
                 stickers' = scramble(stickers, choices).stickers
         /\ gui_solution' = <<>>
         /\ current_step' = 0
         /\ auto_mode' = FALSE
         /\ ops' = ops + 1
         /\ UNCHANGED <<MOVE_TABLES, start, others, probes, heap, trace,
                        solving_in_progress, workers>>

\* reset_cube: the button
ResetCube ==
    /\ ops < MaxGuiOps
    /\ stickers' = reset
    /\ gui_solution' = <<>>
    /\ current_step' = 0
    /\ auto_mode' = FALSE
    /\ solving_in_progress' = FALSE
    /\ ops' = ops + 1
    /\ UNCHANGED <<MOVE_TABLES, start, others, probes, heap, trace, workers>>

\* _handle_keyboard: one of the face keys
KeyMove ==
    IF solving_in_progress THEN UNCHANGED vars
    ELSE /\ ops < MaxGuiOps
         /\ \E move \in KeyMoves : stickers' = apply_move(stickers, move)
         /\ gui_solution' = <<>>
         /\ current_step' = 0
         /\ auto_mode' = FALSE
         /\ ops' = ops + 1
         /\ UNCHANGED <<MOVE_TABLES, start, others, probes, heap, trace,
                        solving_in_progress, workers>>

\* _rebuild_cube_to_step(step): a new cube, the first step moves replayed
_rebuild_cube_to_step(step) == Replay(reset, SubSeq(gui_solution, 1, step))

\* mutant: prev_move without the test that current_step is positive
PrevMove_below_zero ==
    IF ~solving_in_progress
    THEN /\ ops < MaxGuiOps
         /\ current_step' = current_step - 1
         /\ stickers' = _rebuild_cube_to_step(current_step - 1)
         /\ MOVE_TABLES' = _init_move_tables(MOVE_TABLES)
         /\ ops' = ops + 1
         /\ UNCHANGED <<start, others, probes, heap, trace,
                        solving_in_progress, gui_solution, auto_mode, workers>>
    ELSE UNCHANGED vars

\* prev_move: the button, or LEFT while no solve is in progress
PrevMove ==
    IF current_step > 0 /\ ~solving_in_progress
    THEN /\ ops < MaxGuiOps
         /\ current_step' = current_step - 1
         /\ stickers' = _rebuild_cube_to_step(current_step - 1)
         /\ MOVE_TABLES' = _init_move_tables(MOVE_TABLES)
         /\ ops' = ops + 1
         /\ UNCHANGED <<start, others, probes, heap, trace,
                        solving_in_progress, gui_solution, auto_mode, workers>>
    ELSE UNCHANGED vars

\* the body of next_move once its test has passed
next_move_body ==
    /\ stickers' = apply_move(stickers, gui_solution[current_step + 1])
    /\ current_step' = current_step + 1
    /\ auto_mode' = IF /\ is_solved(apply_move(stickers, gui_solution[current_step + 1]))
                       /\ current_step + 1 = Len(gui_solution)
                    THEN FALSE ELSE auto_mode

\* next_move: the button, or RIGHT while no solve is in progress
NextMove ==
    IF current_step < Len(gui_solution) /\ ~solving_in_progress
    THEN /\ ops < MaxGuiOps
         /\ next_move_body
         /\ ops' = ops + 1
         /\ UNCHANGED <<MOVE_TABLES, start, others, probes, heap, trace,
                        solving_in_progress, gui_solution, workers>>
    ELSE UNCHANGED vars

\* toggle_auto_mode: the button
ToggleAutoMode ==
    IF solving_in_progress THEN UNCHANGED vars
    ELSE /\ ops < MaxGuiOps
         /\ auto_mode' = ~auto_mode
         /\ ops' = ops + 1
         /\ UNCHANGED <<MOVE_TABLES, start, stickers, others, probes, heap, trace,
                        solving_in_progress, gui_solution, current_step, workers>>

\* update, on a frame where animation_counter reaches AUTO_DELAY
Update ==
    IF auto_mode /\ current_step < Len(gui_solution) /\ ~solving_in_progress
    THEN /\ ops < MaxGuiOps
         /\ next_move_body
         /\ ops' = ops + 1
         /\ UNCHANGED <<MOVE_TABLES, start, others, probes, heap, trace,
                        solving_in_progress, gui_solution, workers>>
    ELSE IF /\ is_solved(stickers)
            /\ current_step = Len(gui_solution)
            /\ Len(gui_solution) > 0
    THEN /\ auto_mode' = FALSE
         /\ UNCHANGED <<MOVE_TABLES, start, stickers, ops, others, probes, heap, trace,
                        solving_in_progress, gui_solution, current_step, workers>>
    ELSE UNCHANGED vars

NextGUI ==
    \/ SolveCube \/ ScrambleCube \/ ResetCube \/ KeyMove
    \/ PrevMove \/ NextMove \/ ToggleAutoMode \/ Update
    \/ WorkerSolve \/ WorkerPublish \/ WorkerRewind \/ WorkerAuto \/ WorkerClear

SpecGUI == InitGUI /\ [][NextGUI]_vars

(* C25: the move table is built once and never changes afterwards.  From  *)
(* the construction of the first cube on it holds exactly the 18 entries   *)
(* _init_move_tables built, and no later step (a cube constructed or       *)
(* copied, apply_move, scramble, reset, solve, solve threads side by side) *)
(* adds, removes or alters an entry.                                       *)
C25_TablesBuiltOnce ==
    /\ [](/\ DOMAIN MOVE_TABLES =
               {move_name(f, suffix) :
                    f \in Range(base_moves), suffix \in Range(suffixes)}
           /\ Cardinality(DOMAIN MOVE_TABLES) = 18
           /\ MOVE_TABLES = BuiltTables)
    /\ [][MOVE_TABLES' = MOVE_TABLES]_vars

\* two solve threads have each copied the cube and solved the copy, after
\* key moves and a reset
C25_Witness ==
    /\ Len(workers) = 2
    /\ \A i \in 1..Len(workers) : workers[i].pc # "started"
    /\ stickers # reset
    /\ ops = MaxGuiOps

(* C14: at most one solve is in flight at any time: a solve request made   *)
(* while a thread started earlier has not yet published its result starts  *)
(* no second thread.                                                       *)
C14_OneSolveInFlight == Cardinality(InFlight) <= 1

\* the colours of the facelets of a slot of EDGE_POSITIONS or
\* CORNER_POSITIONS, in the slot's order
SlotColours(st, slot) ==
    [k \in 1..(Len(slot) \div 3) |->
        get_sticker(st, slot[3 * k - 2], slot[3 * k - 1], slot[3 * k])]

\* the colour pairs and triples the reset array carries in its slots
ResetEdgePairs == {SlotColours(reset, e) : e \in Range(EDGE_POSITIONS)}
ResetCornerTriples == {SlotColours(reset, c) : c \in Range(CORNER_POSITIONS)}

(* C15: in every state reached from the reset state by moves, find_edge    *)
(* finds a slot for each of the 12 colour pairs of the reset state's edge  *)
(* slots and find_corner finds a slot for each of the 8 colour triples of  *)
(* its corner slots.                                                       *)
C15_LocateNeverMisses ==
    start = reset =>
        /\ \A p \in ResetEdgePairs : find_edge(stickers, p[1], p[2]) # None
        /\ \A t \in ResetCornerTriples :
               find_corner(stickers, t[1], t[2], t[3]) # None

(***************************************************************************)
(* Specification SpecMoves: apply_move and scramble called on a cube, from *)
(* any of the arrays of InitArrays, MaxOps candidate moves at most.  What  *)
(* each scramble call was asked for and what it applied is recorded.       *)
(***************************************************************************)
InitMoves ==
    /\ MOVE_TABLES = _init_move_tables(EmptyDict)
    /\ start \in InitArrays
    /\ stickers = start
    /\ ops = 0
    /\ Idle

\* cube.apply_move(move)
Turn ==
    /\ ops < MaxOps
    /\ \E move \in DOMAIN MOVE_TABLES :
           stickers' = apply_move(stickers, move)
    /\ ops' = ops + 1
    /\ UNCHANGED <<MOVE_TABLES, start, others, probes, heap, trace, gui>>

\* cube.scramble(count)
ScrambleCall ==
    /\ \E count \in 0..(MaxOps - ops) :
         \E choices \in [1..count -> DOMAIN MOVE_TABLES] :
            /\ stickers' = scramble(stickers, choices).stickers
            /\ scramble_applied' = scramble(stickers, choices).applied
            /\ scramble_moves' = count
            /\ ops' = ops + count
    /\ UNCHANGED <<MOVE_TABLES, start, others, solved, gui, heap, trace>>

NextMoves == Turn \/ ScrambleCall

SpecMoves == InitMoves /\ [][NextMoves]_vars

\* the number of facelets of an array that show a colour
ColourCount(st, colour) == Cardinality({i \in 0..53 : st[i] = colour})

\* the centre facelets of an array, by face index
Centres(st) == [face_idx \in 0..5 |-> st[face_idx * 9 + 4]]

(* C16: each of the 18 move tables is a total permutation of 0..53, every  *)
(* index appearing exactly once, so applying moves keeps the number of     *)
(* facelets of each colour.                                                *)
C16_TablesArePermutations ==
    /\ Cardinality(DOMAIN MOVE_TABLES) = 18
    /\ \A move \in DOMAIN MOVE_TABLES :
          /\ DOMAIN MOVE_TABLES[move] = 0..53
          /\ {MOVE_TABLES[move][i] : i \in 0..53} = 0..53
    /\ \A colour \in 0..5 :
          ColourCount(stickers, colour) = ColourCount(start, colour)

\* MaxOps moves have been applied and left another array
C16_Witness ==
    /\ ops = MaxOps
    /\ stickers # start
    /\ scramble_moves = 0

(* C17: no move moves a centre: after any sequence of apply_move and       *)
(* scramble calls, from any facelet array, the centre facelet of each of   *)
(* the six faces has the value it had at the start.                        *)
C17_CentresFixed == Centres(stickers) = Centres(start)

\* an array that is not a cube position, changed by a scramble of two moves
C17_Witness ==
    /\ start = Striped
    /\ Len(scramble_applied) = 2
    /\ stickers # start

(***************************************************************************)
(* Specification SpecIsSolved: is_solved called on a facelet array.  The   *)
(* arrays are the reset array, the reset array with one facelet (centre or *)
(* not) given another colour, the arrays one move away from the reset      *)
(* array, and arrays with uniform faces in other colours.                  *)
(***************************************************************************)
CentreIndices == {face_idx * 9 + 4 : face_idx \in 0..5}

\* the reset array with the facelet at one index given another colour
OneChanged(indices) ==
    {[reset EXCEPT ![i] = colour] :
        i \in indices, colour \in 0..5} \ {reset}

Uniform == {[i \in 0..53 |-> 0], [i \in 0..53 |-> 5 - (i \div 9)]}

IsSolvedInputs ==
    {reset} \cup OneChanged(0..53) \cup Uniform \cup {Striped, Banded}
        \cup {apply_move(reset, move) : move \in DOMAIN BuiltTables}

InitIsSolved ==
    /\ MOVE_TABLES = _init_move_tables(EmptyDict)
    /\ start \in IsSolvedInputs
    /\ stickers = start
    /\ ops = 0
    /\ Idle

\* cube.is_solved()
IsSolved ==
    /\ pc = "idle"
    /\ solved' = is_solved(stickers)
    /\ pc' = "checked"
    /\ UNCHANGED <<MOVE_TABLES, start, stickers, ops, moves, simplified, stage,
                   working_cube, solution, error, result, scramble_moves,
                   scramble_applied, gui, heap, trace>>

NextIsSolved == IsSolved

SpecIsSolved == InitIsSolved /\ [][NextIsSolved]_vars

\* the nine facelets of a face, as a set of colours
FaceColours(st, face_idx) == {st[face_idx * 9 + i] : i \in 0..8}

(* C18: is_solved returns true exactly when, for every face, all 9         *)
(* facelets of the face equal that face's centre facelet; the reset array  *)
(* is solved, and the reset array with one non-centre facelet changed to   *)
(* another colour is not.                                                  *)
C18_SolvedIffUniformFaces ==
    pc = "checked" =>
        /\ solved <=> \A face_idx \in 0..5 :
               FaceColours(stickers, face_idx) = {stickers[face_idx * 9 + 4]}
        /\ stickers = reset => solved
        /\ stickers \in OneChanged((0..53) \ CentreIndices) => ~solved

\* is_solved has answered for the reset array with its last facelet changed
C18_Witness ==
    /\ pc = "checked"
    /\ stickers = [reset EXCEPT ![53] = 0]
    /\ ~solved

(* C19: scramble(count) applies exactly count moves; a candidate rejected  *)
(* because it would cancel the previous move does not count.               *)
C19_AppliesCountMoves == Len(scramble_applied) = scramble_moves

(* C20: the moves scramble applies contain no two consecutive moves on the *)
(* same face whose turn counts sum to a multiple of 4.                     *)
C20_NoCancellingPair ==
    \A k \in 1..(Len(scramble_applied) - 1) :
        scramble_applied[k][1] = scramble_applied[k + 1][1]
            => (TurnCount(scramble_applied[k])
                    + TurnCount(scramble_applied[k + 1])) % 4 # 0

\* a scramble that applied two moves on one face
C20_Witness ==
    /\ scramble_moves = 2
    /\ Len(scramble_applied) = 2
    /\ scramble_applied[1][1] = scramble_applied[2][1]

(***************************************************************************)
(* Specification SpecCopy: a cube and its copy as Python objects.  cubes   *)
(* holds, for every RubiksCube object, the id of the list its stickers     *)
(* attribute is bound to; lists holds the contents of every list object.   *)
(* The original is object 1.  apply_move, reset and scramble are called on *)
(* either object, before and after copy() is.  Every method binds          *)
(* self.stickers to a list it has just made; no list is written in place   *)
(* once it is bound (reset extends the list it has just created).          *)
(***************************************************************************)
CopyMoves == {mU, mRp, mF2}

\* the facelet array of a cube object
ArrayOf(id) == lists[cubes[id]]

\* RubiksCube(): a new object whose stickers is a new list, filled by reset
RubiksCube_new(cs, ls) ==
    [cubes |-> Append(cs, Len(ls) + 1), lists |-> Append(ls, reset),
     new |-> Len(cs) + 1]

\* mutant: copy hands back the cube it was called on
copy_object_returns_self(cs, ls, self) ==
    [cubes |-> cs, lists |-> ls, new |-> self]

\* copy(): new_cube = RubiksCube(); new_cube.stickers = self.stickers[:]
copy_object(cs, ls, self) ==
    LET made == RubiksCube_new(cs, ls)
        sliced == Append(made.lists, copy(made.lists[made.cubes[self]]))
    IN  [cubes |-> [made.cubes EXCEPT ![made.new] = Len(sliced)],
         lists |-> sliced, new |-> made.new]

\* self.stickers = a list just made, holding array
bind_stickers(cs, ls, self, array) ==
    [cubes |-> [cs EXCEPT ![self] = Len(ls) + 1], lists |-> Append(ls, array)]

\* the cube objects the caller holds
Handles == IF clone = 0 THEN {1} ELSE {1, clone}

InitCopy ==
    /\ MOVE_TABLES = _init_move_tables(EmptyDict)
    /\ start \in InitArrays
    /\ stickers = start
    /\ ops = 0
    /\ moves = <<>>
    /\ simplified = <<>>
    /\ pc = "idle"
    /\ stage = 0
    /\ working_cube = reset
    /\ solution = <<>>
    /\ error = "none"
    /\ result = <<>>
    /\ NoProbe
    /\ NoGui
    /\ cubes = <<1>>
    /\ lists = <<start>>
    /\ clone = 0
    /\ NoTrace

\* clone = original.copy()
CopyCall ==
    /\ clone = 0
    /\ LET r == copy_object(cubes, lists, 1)
       IN  /\ cubes' = r.cubes
           /\ lists' = r.lists
           /\ clone' = r.new
    /\ MOVE_TABLES' = _init_move_tables(MOVE_TABLES)
    /\ call' = <<"copy", 1>>
    /\ UNCHANGED <<start, stickers, ops, others, probes, gui, found, piece, n_iterations>>

\* what a method called on object self leaves behind, array being the
\* list it bound to self.stickers
MethodOn(name, self, array, count) ==
    /\ LET r == bind_stickers(cubes, lists, self, array)
       IN  /\ cubes' = r.cubes
           /\ lists' = r.lists
           /\ stickers' = r.lists[r.cubes[1]]
    /\ call' = <<name, self>>
    /\ ops' = ops + count
    /\ UNCHANGED <<MOVE_TABLES, start, others, probes, gui, clone, found, piece,
                   n_iterations>>

\* c.apply_move(move)
ApplyMoveOn ==
    /\ ops < MaxOps
    /\ \E self \in Handles : \E move \in CopyMoves :
           MethodOn("apply_move", self, apply_move(ArrayOf(self), move), 1)

\* c.reset()
ResetOn ==
    /\ ops < MaxOps
    /\ \E self \in Handles : MethodOn("reset", self, reset, 1)

\* c.scramble(count): every apply_move of the loop binds a new list, of
\* which the last one stays bound
ScrambleOn ==
    \E self \in Handles : \E count \in 1..(MaxOps - ops) :
        \E choices \in [1..count -> CopyMoves] :
            MethodOn("scramble", self, scramble(ArrayOf(self), choices).stickers,
                     count)

NextCopy == CopyCall \/ ApplyMoveOn \/ ResetOn \/ ScrambleOn

SpecCopy == InitCopy /\ [][NextCopy]_vars

(* C21: copy returns an independent copy.  The copy is another object, its *)
(* facelet array equals the original's at the time of the call (which the  *)
(* call leaves alone), and every later apply_move, scramble or reset on    *)
(* one of the two leaves the facelet array of the other unchanged.         *)
C21_CloneIndependent ==
    /\ [][(clone = 0 /\ clone' # 0)
            => /\ clone' # 1
               /\ lists'[cubes'[clone']] = ArrayOf(1)
               /\ ArrayOf(1)' = ArrayOf(1)]_vars
    /\ [][(clone # 0 /\ ops' # ops)
            => \A other \in {1, clone} \ {call'[2]} :
                   ArrayOf(other)' = ArrayOf(other)]_vars

\* the clone has been operated on after the copy, up to the bound: its array
\* is no longer the one copied, which the original still holds
C21_Witness ==
    /\ clone # 0
    /\ ops = MaxOps
    /\ call[2] = clone
    /\ ArrayOf(clone) # ArrayOf(1)
    /\ ArrayOf(clone) # start
    /\ ArrayOf(1) = start

(***************************************************************************)
(* Specification SpecQueries: one call of find_edge, find_corner or        *)
(* apply_move on one facelet array.  The arrays are the reset array, the   *)
(* arrays one move away from it (where slots no longer hold pieces), and   *)
(* arrays that are no cube position, where several slots show the same     *)
(* colours.  apply_move is given names that are not keys of MOVE_TABLES.   *)
(***************************************************************************)
QueryInputs ==
    {reset, Striped, Banded} \cup {[i \in 0..53 |-> (i \div 3) % 2]}
        \cup {apply_move(reset, move) : move \in DOMAIN BuiltTables}

\* names outside the table that begin with a face letter
UnknownMoves ==
    {<<"U", "3">>, <<"D", "2", "'">>, <<"L", "w">>, <<"R", "'", "'">>,
     <<"F", "2", "2">>, <<"B", " ">>}

InitQueries ==
    /\ MOVE_TABLES = _init_move_tables(EmptyDict)
    /\ start \in QueryInputs
    /\ stickers = start
    /\ ops = 0
    /\ Idle

\* cube.find_edge(color1, color2)
FindEdge ==
    /\ pc = "idle"
    /\ \E color1 \in 0..5 : \E color2 \in 0..5 :
           /\ found' = find_edge(stickers, color1, color2)
           /\ call' = <<"find_edge", color1, color2>>
    /\ pc' = "called"
    /\ UNCHANGED <<MOVE_TABLES, start, stickers, ops, moves, simplified, stage,
                   working_cube, solution, error, result, probes, gui, heap,
                   piece, n_iterations>>

\* cube.find_corner(color1, color2, color3)
FindCorner ==
    /\ pc = "idle"
    /\ \E color1 \in 0..5 : \E color2 \in 0..5 : \E color3 \in 0..5 :
           /\ found' = find_corner(stickers, color1, color2, color3)
           /\ call' = <<"find_corner", color1, color2, color3>>
    /\ pc' = "called"
    /\ UNCHANGED <<MOVE_TABLES, start, stickers, ops, moves, simplified, stage,
                   working_cube, solution, error, result, probes, gui, heap,
                   piece, n_iterations>>

\* cube.apply_move(move), move not a key of the table
ApplyUnknown ==
    /\ pc = "idle"
    /\ \E move \in UnknownMoves :
           /\ stickers' = apply_move(stickers, move)
           /\ call' = <<"apply_move", move>>
    /\ pc' = "called"
    /\ UNCHANGED <<MOVE_TABLES, start, ops, moves, simplified, stage,
                   working_cube, solution, error, result, probes, gui, heap,
                   found, piece, n_iterations>>

NextQueries == FindEdge \/ FindCorner \/ ApplyUnknown

SpecQueries == InitQueries /\ [][NextQueries]_vars

\* the places in a slot table of the slots that show exactly these colours
Matches(st, table, colours) ==
    {k \in 1..Len(table) : Range(SlotColours(st, table[k])) = colours}

\* the first of them in the table, None when there is none
FirstMatch(st, table, colours) ==
    LET ks == Matches(st, table, colours)
    IN  IF ks = {} THEN None
        ELSE table[CHOOSE k \in ks : \A j \in ks : k <= j]

(* C22: for every facelet array, well formed or not, and all colours,      *)
(* find_edge returns the first slot of EDGE_POSITIONS, in declaration      *)
(* order, whose two current colours as a set equal {color1, color2}, and   *)
(* None when no slot matches; find_corner does the same over               *)
(* CORNER_POSITIONS with the set of three colours.  When several slots     *)
(* match, the earliest in the table is returned.                           *)
C22_LocateFirstMatch ==
    /\ (pc = "called" /\ call[1] = "find_edge")
           => found = FirstMatch(stickers, EDGE_POSITIONS, {call[2], call[3]})
    /\ (pc = "called" /\ call[1] = "find_corner")
           => found = FirstMatch(stickers, CORNER_POSITIONS,
                                 {call[2], call[3], call[4]})

\* find_edge has answered on an array that is no cube position, where
\* three or more slots show the colours asked for, with the earliest of them
C22_Witness ==
    /\ pc = "called"
    /\ call[1] = "find_edge"
    /\ start \notin {reset} \cup {apply_move(reset, move) : move \in DOMAIN MOVE_TABLES}
    /\ Cardinality(Matches(stickers, EDGE_POSITIONS, {call[2], call[3]})) >= 3
    /\ found # None
    /\ found # EDGE_POSITIONS[1]

(* C24: apply_move with a name that is not one of the 18 keys of           *)
(* MOVE_TABLES but begins with a face letter has exactly the effect of the *)
(* base move of that face: the call does not fail and does not leave the   *)
(* array as it was.                                                        *)
C24_UnknownFallsBack ==
    (pc = "called" /\ call[1] = "apply_move")
        => /\ call[2] \notin DOMAIN MOVE_TABLES
           /\ stickers = [i \in 0..53 |-> start[MOVE_TABLES[<<call[2][1]>>][i]]]
           /\ stickers # start

\* a name with a half-turn suffix and more has turned the face a quarter turn
C24_Witness ==
    /\ pc = "called"
    /\ call = <<"apply_move", <<"F", "2", "2">> >>
    /\ start = reset
    /\ stickers = Replay(reset, <<mF>>)
    /\ stickers # Replay(reset, <<mF2>>)

(***************************************************************************)
(* Specification SpecPieces: solve, with stages 1 to 3 run one piece at a  *)
(* time (one pass of the stage's for loop per step) and stages 4 to 7 one  *)
(* stage per step.  The cube solve is called on starts as one of           *)
(* PieceArrays and has had up to MaxTurnsBefore moves applied: any move    *)
(* first, then moves of LaterTurns.                                        *)
(***************************************************************************)
\* the reset array with the colours of U and D exchanged
YellowUp == [i \in 0..53 |-> IF i < 9 THEN 1 ELSE IF i < 18 THEN 0 ELSE i \div 9]

PieceArrays == {reset, Striped, Banded, YellowUp}

LaterTurns == {mD, mRp}

\* the number of passes of the for loop of stage k
pieces_of(k) ==
    Len(IF k = 1 THEN white_edges ELSE IF k = 2 THEN corners ELSE edges)

\* the locate query the pass for piece j of stage k begins with
piece_query(k, j, cube) ==
    IF k = 1 THEN find_edge(cube, white_edges[j][1], white_edges[j][2])
    ELSE IF k = 2 THEN find_corner(cube, corners[j][1], corners[j][2], corners[j][3])
    ELSE find_edge(cube, edges[j][1], edges[j][2])

\* mutant: the not-found test is missing from the three methods, so that
\* unpacking None raises TypeError
run_piece_raises_on_miss(k, j, s) ==
    IF piece_query(k, j, s.cube) = None THEN Raise(s, "TypeError")
    ELSE IF k = 1
    THEN _position_white_edge_safely(s, white_edges[j][1], white_edges[j][2],
                                     white_edges[j][3])
    ELSE IF k = 2
    THEN _position_white_corner_safely(s, corners[j][1], corners[j][2],
                                       corners[j][3])
    ELSE _position_middle_edge_safely(s, edges[j][1], edges[j][2],
                                      edges[j][3], edges[j][4])

\* pass j of the for loop of stage k
run_piece(k, j, s) ==
    IF k = 1
    THEN _position_white_edge_safely(s, white_edges[j][1], white_edges[j][2],
                                     white_edges[j][3])
    ELSE IF k = 2
    THEN _position_white_corner_safely(s, corners[j][1], corners[j][2],
                                       corners[j][3])
    ELSE _position_middle_edge_safely(s, edges[j][1], edges[j][2],
                                      edges[j][3], edges[j][4])

InitPieces ==
    /\ MOVE_TABLES = _init_move_tables(EmptyDict)
    /\ start \in PieceArrays
    /\ stickers = start
    /\ ops = 0
    /\ Idle

\* cube.apply_move(move), before solve is called
TurnBefore ==
    /\ pc = "idle"
    /\ ops < MaxTurnsBefore
    /\ \E move \in (IF ops = 0 THEN DOMAIN MOVE_TABLES ELSE LaterTurns) :
           stickers' = apply_move(stickers, move)
    /\ ops' = ops + 1
    /\ UNCHANGED <<MOVE_TABLES, start, others, probes, gui, heap, trace>>

\* the next pass of the for loop of stage 1, 2 or 3; the stage ends with
\* its last pass, or where a pass raises
PieceStep ==
    /\ pc = "try"
    /\ error = "none"
    /\ stage \in 1..3
    /\ LET s == run_piece(stage, piece + 1,
                          [cube |-> working_cube, sol |-> solution, err |-> error])
       IN  /\ working_cube' = s.cube
           /\ solution' = s.sol
           /\ error' = s.err
           /\ IF s.err # "none" THEN UNCHANGED <<stage, piece>>
              ELSE IF piece + 1 = pieces_of(stage)
              THEN stage' = stage + 1 /\ piece' = 0
              ELSE stage' = stage /\ piece' = piece + 1
    /\ UNCHANGED <<MOVE_TABLES, start, stickers, ops, moves, simplified, pc,
                   result, probes, gui, heap, call, found, n_iterations>>

\* stages 4 to 7
LateStage == stage >= 4 /\ SolveStage

NextPieces == TurnBefore \/ SolveCall \/ PieceStep \/ LateStage \/ SolveReturn

SpecPieces == InitPieces /\ [][NextPieces]_vars

(* C23: when the locate query for a required piece finds no slot at the    *)
(* start of that piece's handling in stage 1, 2 or 3, the stage applies    *)
(* and records no move for that piece and goes on to the next piece (or    *)
(* the next stage after the last piece); the call does not abort.          *)
C23_MissSkipsPiece ==
    [][(/\ pc = "try"
        /\ error = "none"
        /\ stage \in 1..3
        /\ piece_query(stage, piece + 1, working_cube) = None)
          => /\ solution' = solution
             /\ working_cube' = working_cube
             /\ error' = "none"
             /\ pc' = "try"
             /\ <<stage', piece'>> =
                    IF piece + 1 = pieces_of(stage) THEN <<stage + 1, 0>>
                    ELSE <<stage, piece + 1>>]_vars

\* stage 3 has passed over its first piece, which no slot shows, and goes
\* on after moves recorded earlier; stage 1 met a missing piece as well
C23_Witness ==
    /\ pc = "try"
    /\ error = "none"
    /\ stage = 3
    /\ piece = 1
    /\ piece_query(3, 1, working_cube) = None
    /\ piece_query(1, 4, copy(stickers)) = None
    /\ Len(solution) > 0

(* C26: at every point of a solve call, replaying the move log recorded so *)
(* far, in order, on a copy of the input array yields exactly the working  *)
(* copy's current array: every move a stage applies to the working copy is *)
(* appended to the log, in the order applied, and nothing else is.         *)
C26_LogReplaysToClone ==
    pc \in {"try", "returned"} => Replay(copy(stickers), solution) = working_cube

\* solve has returned from stage 6 for a cube turned twice, with more than
\* four hundred moves applied and recorded
C26_Witness ==
    /\ pc = "returned"
    /\ ops = MaxTurnsBefore
    /\ start = reset
    /\ stage > 6
    /\ Len(solution) > 400
    /\ working_cube # stickers

(***************************************************************************)
(* Specification SpecPiecesFair: SpecPieces with the call running on: the  *)
(* thread inside solve keeps taking its next statement, nothing in the     *)
(* class blocks or waits.  InTryBlock is the enabling condition of         *)
(* PieceStep \/ LateStage, and in SpecPieces the steps that leave such a   *)
(* state are exactly the steps of those two actions (TryStep), so the      *)
(* second conjunct is WF_vars(PieceStep \/ LateStage) with ENABLED written *)
(* out.                                                                    *)
(***************************************************************************)
InTryBlock == pc = "try" /\ error = "none" /\ stage \in 1..LastStage

TryStep == InTryBlock /\ <<stage, piece, error>>' # <<stage, piece, error>>

SpecPiecesFair ==
    /\ SpecPieces
    /\ []<>(~InTryBlock) \/ []<><<TryStep>>_vars
    /\ WF_vars(SolveReturn)

\* the branch of _position_white_edge_safely a located slot is handled by
edge_case(slot) ==
    IF slot[1] = "U" THEN 1
    ELSE IF slot[1] \in SideFaces /\ slot[4] \in SideFaces THEN 2
    ELSE IF slot[1] = "D" \/ slot[4] = "D" THEN 3
    ELSE 4

(* C27: every solve call terminates, for every input array: it returns a   *)
(* sequence or the failure value and never loops or recurses for ever.     *)
(* The unguarded while loops of stages 5 and 7 end, the retry recursion of *)
(* the cross stage (case 4) is entered for no slot of the table, and a     *)
(* call that has entered the try block returns.                            *)
C27_SolveTerminates ==
    /\ [](error # Hang)
    /\ [](\A k \in 1..Len(EDGE_POSITIONS) : edge_case(EDGE_POSITIONS[k]) # 4)
    /\ (pc = "try") ~> (pc = "returned")

\* stage 5 has run its unguarded loop, turning U to move a yellow corner
\* facelet away before the algorithm, and the call has returned
C27_Witness ==
    /\ pc = "returned"
    /\ stage > 5
    /\ start # reset
    /\ \E k \in 1..(Len(solution) - 8) :
           /\ SubSeq(solution, k + 1, k + 8) = <<mU>> \o orient_moves
           /\ solution[k] = mRp

(***************************************************************************)
(* The cross stage, one required edge at a time.                           *)
(***************************************************************************)
\* the pass of the cross stage about to run, and the slot its edge is
\* located in
CrossPass == pc = "try" /\ error = "none" /\ stage = 1

CrossSlot == piece_query(1, piece + 1, working_cube)

CrossTarget == white_edges[piece + 1][3]

(* C28: in the cross stage, an edge found already in its destination slot, *)
(* the top-face slot adjoining its destination side face, is skipped: no   *)
(* move is applied or recorded for it.                                     *)
C28_PlacedEdgeSkipped ==
    [][(/\ CrossPass
        /\ CrossSlot # None
        /\ CrossSlot[1] = "U"
        /\ CrossSlot[4] = CrossTarget)
          => /\ solution' = solution
             /\ working_cube' = working_cube
             /\ error' = "none"]_vars

(* C29: in the cross stage, an edge found in a bottom-face slot whose side *)
(* face is not its destination is brought under its destination by at     *)
(* most 3 recorded D turns and then inserted by the half turn of the       *)
(* destination face; the budget of the loop is not exhausted.              *)
C29_BottomEdgeAligned ==
    [][(/\ CrossPass
        /\ CrossSlot # None
        /\ CrossSlot[1] = "D"
        /\ CrossSlot[4] # CrossTarget)
          => /\ error' = "none"
             /\ \E k \in 1..3 :
                    /\ solution' = solution \o [i \in 1..k |-> mD] \o <<<<CrossTarget, "2">>>>
                    /\ LET slot == find_edge(Repeat(working_cube, mD, k),
                                             white_edges[piece + 1][1],
                                             white_edges[piece + 1][2])
                       IN  slot # None /\ slot[1] = "D" /\ slot[4] = CrossTarget]_vars

(* C30: in the cross stage, on a state reached from the reset state by     *)
(* moves, an edge found in a top-face slot that does not adjoin its        *)
(* destination is brought there by at most 3 recorded U turns, after which *)
(* exactly one move, the half turn of the destination face, is applied and *)
(* recorded.                                                               *)
C30_TopEdgeAligned ==
    [][(/\ CrossPass
        /\ start = reset
        /\ CrossSlot # None
        /\ CrossSlot[1] = "U"
        /\ CrossSlot[4] # CrossTarget)
          => /\ error' = "none"
             /\ \E k \in 1..3 :
                    /\ solution' = solution \o [i \in 1..k |-> mU] \o <<<<CrossTarget, "2">>>>
                    /\ LET slot == find_edge(Repeat(working_cube, mU, k),
                                             white_edges[piece + 1][1],
                                             white_edges[piece + 1][2])
                       IN  slot # None /\ slot[1] = "U" /\ slot[4] = CrossTarget]_vars

(***************************************************************************)
(* Specification SpecLoop: _safe_while_loop statement by statement, called *)
(* with a budget and a pair of closures.  All the helper sees of the       *)
(* closures is after how many actions the condition first returns False:   *)
(* call = <<"_safe_while_loop", needed, max_iterations>>, needed being     *)
(* that number (a condition that is False on entry has needed = 0, one     *)
(* with needed > max_iterations is still True when the budget is used up). *)
(***************************************************************************)
MaxBudget == 3      \* bounded loop: largest small max_iterations tried

\* the budgets tried: the small ones and the default of the parameter
LoopBudgets == 1..MaxBudget \cup {MAX_ITERATIONS_PER_STEP}

\* condition_func()
loop_condition == n_iterations < call[2]

InitLoop ==
    /\ MOVE_TABLES = _init_move_tables(EmptyDict)
    /\ start = reset
    /\ stickers = start
    /\ ops = 0
    /\ Idle

\* self._safe_while_loop(condition_func, action_func, max_iterations);
\* iterations = 0
LoopCall ==
    /\ pc = "idle"
    /\ \E max_iterations \in LoopBudgets : \E needed \in 0..(max_iterations + 1) :
           call' = <<"_safe_while_loop", needed, max_iterations>>
    /\ n_iterations' = 0
    /\ pc' = "while"
    /\ UNCHANGED <<MOVE_TABLES, start, stickers, ops, moves, simplified, stage,
                   working_cube, solution, error, result, probes, gui, heap,
                   found, piece>>

\* one pass of the while loop: action_func(); iterations += 1
LoopPass ==
    /\ pc = "while"
    /\ loop_condition /\ n_iterations < call[3]
    /\ n_iterations' = n_iterations + 1
    /\ UNCHANGED <<MOVE_TABLES, start, stickers, ops, others, probes, gui, heap,
                   call, found, piece>>

\* the loop test fails; the if after the loop raises or the helper returns
LoopExit ==
    /\ pc = "while"
    /\ ~(loop_condition /\ n_iterations < call[3])
    /\ error' = IF n_iterations >= call[3] THEN "RuntimeError" ELSE "none"
    /\ pc' = "returned"
    /\ UNCHANGED <<MOVE_TABLES, start, stickers, ops, moves, simplified, stage,
                   working_cube, solution, result, probes, gui, heap, trace>>

NextLoop == LoopCall \/ LoopPass \/ LoopExit

SpecLoop == InitLoop /\ [][NextLoop]_vars

(* C31: the bounded-loop helper runs its action at most max_iterations     *)
(* times and raises if and only if the condition still holds after         *)
(* max_iterations actions; a loop whose condition turns false after        *)
(* exactly max_iterations actions, or is false on entry, returns normally. *)
C31_RaisesOnlyWhenStillTrue ==
    pc = "returned" =>
        /\ n_iterations <= call[3]
        /\ (error = "RuntimeError") <=> (call[2] > call[3])

(***************************************************************************)
(* Specification SpecLastLayer: a last-layer stage method called on a cube *)
(* whose array is one of LastLayerArrays turned up to MaxLastTurns times.  *)
(* Stage 5 runs one pass of its for loop per step, the other stages in one *)
(* step; after the stage the pipeline of solve goes on.                    *)
(***************************************************************************)
MaxLastTurns == 2   \* last layer: moves turned before the stage is called

LastLayerArrays == {reset, YellowUp, Banded}

LastLayerTurns == {mL2, mB2}

LastLayerStages == {4, 5, 7}

InitLastLayer ==
    /\ MOVE_TABLES = _init_move_tables(EmptyDict)
    /\ start \in LastLayerArrays
    /\ stickers = start
    /\ ops = 0
    /\ Idle

\* cube.apply_move(move), before the stage is called
TurnLastLayer ==
    /\ pc = "idle"
    /\ ops < MaxLastTurns
    /\ \E move \in (IF ops = 0 THEN DOMAIN MOVE_TABLES ELSE LastLayerTurns) :
           stickers' = apply_move(stickers, move)
    /\ ops' = ops + 1
    /\ UNCHANGED <<MOVE_TABLES, start, others, probes, gui, heap, trace>>

\* the stage method is called on a copy of the cube, with an empty log
StageCall ==
    /\ pc = "idle"
    /\ \E k \in LastLayerStages :
           /\ stage' = k
           /\ call' = <<"stage", k>>
    /\ pc' = "try"
    /\ solution' = <<>>
    /\ working_cube' = copy(stickers)
    /\ error' = "none"
    /\ piece' = 0
    /\ UNCHANGED <<MOVE_TABLES, start, stickers, ops, moves, simplified, result,
                   probes, gui, heap, found, n_iterations>>

\* the body of the for loop of _orient_yellow_corners after the break test
orient_pass(s) ==
    LET aligned == orient_align(s)
    IN  IF aligned.err # "none" THEN aligned ELSE DoAll(aligned, orient_moves)

\* stage 5, one pass of `for _ in range(MAX_ITERATIONS_PER_STEP)` per step;
\* piece counts the passes made.  The stage ends at the break or when the
\* range is used up
OrientPass ==
    /\ pc = "try"
    /\ error = "none"
    /\ stage = 5
    /\ LET s == [cube |-> working_cube, sol |-> solution, err |-> error]
           after == IF piece >= MAX_ITERATIONS_PER_STEP THEN orient_exhausted(s)
                    ELSE IF yellow_count_of(working_cube, corner_positions) = 4 THEN s
                    ELSE orient_pass(s)
           ended == \/ piece >= MAX_ITERATIONS_PER_STEP
                    \/ yellow_count_of(working_cube, corner_positions) = 4
       IN  /\ working_cube' = after.cube
           /\ solution' = after.sol
           /\ error' = after.err
           /\ IF after.err # "none" THEN UNCHANGED <<stage, piece>>
              ELSE IF ended THEN stage' = 6 /\ piece' = 0
              ELSE stage' = 5 /\ piece' = piece + 1
    /\ UNCHANGED <<MOVE_TABLES, start, stickers, ops, moves, simplified, pc,
                   result, probes, gui, heap, call, found, n_iterations>>

\* stages 4, 6 and 7
OtherStage == stage \in {4, 6, 7} /\ SolveStage

NextLastLayer == TurnLastLayer \/ StageCall \/ OrientPass \/ OtherStage \/ SolveReturn

SpecLastLayer == InitLastLayer /\ [][NextLastLayer]_vars

(* C32: stage 5 terminates from every facelet array without aborting the   *)
(* solve: it applies the 7-move orientation algorithm at most 50 times,    *)
(* each application preceded by at most 3 U turns, and when the passes run *)
(* out without four top corner facelets showing the reference colour it    *)
(* stops and the pipeline goes on to stage 6.  The method as a whole gives *)
(* what its passes give.                                                   *)
C32_OrientationEndsSoftly ==
    /\ [](stage = 5 => error = "none" /\ piece <= 50)
    /\ [][(pc = "try" /\ stage = 5) =>
            \/ /\ piece < 50
               /\ yellow_count_of(working_cube, corner_positions) # 4
               /\ \E k \in 0..3 :
                      LET applied == [i \in 1..k |-> mU]
                                         \o <<mR, mU, mRp, mU, mR, mU2, mRp>>
                      IN  /\ solution' = solution \o applied
                          /\ working_cube' = Replay(working_cube, applied)
               /\ <<pc', stage', piece', error'>> = <<"try", 5, piece + 1, "none">>
            \/ /\ piece = 50 \/ yellow_count_of(working_cube, corner_positions) = 4
               /\ solution' = solution
               /\ working_cube' = working_cube
               /\ <<pc', stage', error'>> = <<"try", 6, "none">>]_vars
    /\ []((call = <<"stage", 5>> /\ pc = "try" /\ stage = 6 /\ error = "none")
            => [cube |-> working_cube, sol |-> solution, err |-> error] =
                   _orient_yellow_corners([cube |-> copy(stickers), sol |-> <<>>,
                                           err |-> "none"]))

\* stage 5 has used up its 50 passes, two of them after turning U twice,
\* fewer than four corner facelets are yellow, and stage 6 is next
C32_Witness ==
    /\ call = <<"stage", 5>>
    /\ pc = "try"
    /\ stage = 6
    /\ error = "none"
    /\ yellow_count_of(working_cube, corner_positions) # 4
    /\ Len(solution) >= 350
    /\ \E i \in 1..(Len(solution) - 3) :
           SubSeq(solution, i, i + 3) = <<mRp, mU, mU, mR>>

(* C33: stage 7 finishes normally for every facelet array on entry,        *)
(* whatever number of correct edges (0 to 4) its measuring pass counts: it *)
(* undoes the measuring rotations and then applies one of its two fixed    *)
(* 11-move algorithms (the second after the U turns that bring the correct *)
(* edge to the front) or nothing; no count makes it abort the solve.       *)
C33_EveryCountFinishes ==
    [][(pc = "try" /\ stage = 7 /\ error = "none") =>
          /\ error' = "none"
          /\ stage' = 8
          /\ Len(solution') >= Len(solution) + 8
          /\ SubSeq(solution', 1, Len(solution) + 8) =
                 solution \o <<mU, mU, mU, mU, mUp, mUp, mUp, mUp>>
          /\ LET rest == SubSeq(solution', Len(solution) + 9, Len(solution'))
             IN  \/ rest = <<>>
                 \/ rest = <<mR2, mL2, mU, mR2, mL2, mU2, mR2, mL2, mU, mR2, mL2>>
                 \/ \E k \in 0..3 :
                        rest = [i \in 1..k |-> mU] \o
                            <<mR, mUp, mR, mU, mR, mU, mR, mUp, mRp, mUp, mR2>>]_vars

(***************************************************************************)
(* Stage 4 on the arrays that show the reference colour at exactly two of  *)
(* the four top edge positions.                                            *)
(***************************************************************************)
\* which of the positions (0, 1), (1, 0), (1, 2), (2, 1) of U show colour 1
yellow_pattern(cube) ==
    [k \in 1..4 |->
        get_sticker(cube, "U", cross_positions[k][1], cross_positions[k][2]) = 1]

\* the two positions face each other: top and bottom, or left and right
is_line(pattern) ==
    pattern \in {<<TRUE, FALSE, FALSE, TRUE>>, <<FALSE, TRUE, TRUE, FALSE>>}

\* the array the 6 moves of the fixed algorithm are applied to, given the
\* array on entry and the moves the stage recorded
before_algorithm(cube, recorded) ==
    Replay(cube, SubSeq(recorded, 1, Len(recorded) - 6))

\* the same for the method computed in one piece
before_algorithm_of(cube) ==
    before_algorithm(cube, _solve_yellow_cross([cube |-> cube, sol |-> <<>>,
                                                 err |-> "none"]).sol)

\* the arrays two moves away from those of LastLayerArrays that show exactly
\* two
TwoYellowInputs ==
    {a \in {apply_move(apply_move(b, first), second) :
                b \in LastLayerArrays, first \in DOMAIN BuiltTables,
                second \in LastLayerTurns} :
        yellow_count_of(a, cross_positions) = 2}

(* C34: with exactly 2 of the 4 top edge positions showing the reference   *)
(* colour on entry to stage 4, the stage first turns the top face to a     *)
(* canonical orientation: just before the fixed algorithm the two          *)
(* positions are one fixed pair for every input where they are opposite    *)
(* and one fixed pair for every input where they are adjacent.             *)
C34_CanonicalBeforeAlgorithm ==
    [][(/\ pc = "try" /\ stage = 4 /\ error = "none"
        /\ yellow_count_of(working_cube, cross_positions) = 2) =>
          \A other \in TwoYellowInputs :
              is_line(yellow_pattern(other)) = is_line(yellow_pattern(working_cube))
                => yellow_pattern(before_algorithm_of(other)) =
                       yellow_pattern(before_algorithm(working_cube,
                           SubSeq(solution', Len(solution) + 1, Len(solution'))))]_vars

(***************************************************************************)
(* The positions a move on a face can change.                              *)
(***************************************************************************)
\* face_indices: the 9 positions of the face itself
own_positions(face) == face_offsets[face]..(face_offsets[face] + 8)

\* the 12 positions the three cycles of the face name
ring_positions(face) ==
    {edge_cycles[face][c][k] : c \in 1..3, k \in 1..4}

(* C35: a move on face X changes only facelets among X's own 9 positions   *)
(* and the 12 ring positions named by X's cycle table: for every facelet   *)
(* array the other 33 positions hold the same values after the move as     *)
(* before, and the move's table maps each of them to itself.               *)
C35_OtherPositionsKept ==
    \A move \in DOMAIN MOVE_TABLES :
        LET kept == (0..53) \ (own_positions(move[1]) \cup ring_positions(move[1]))
        IN  /\ Cardinality(kept) = 33
            /\ \A i \in kept :
                   /\ apply_move(stickers, move)[i] = stickers[i]
                   /\ MOVE_TABLES[move][i] = i

\* a moved array on which every move changes a facelet of the face itself
\* and a facelet of its ring
C35_Witness ==
    /\ Moved
    /\ \A move \in DOMAIN MOVE_TABLES :
           /\ \E i \in own_positions(move[1]) :
                  apply_move(stickers, move)[i] # stickers[i]
           /\ \E i \in ring_positions(move[1]) :
                  apply_move(stickers, move)[i] # stickers[i]

(***************************************************************************)
(* Specification SpecGUIFair: SpecGUI with every solve thread running on;  *)
(* a started thread is a daemon thread that holds no lock and waits for    *)
(* nothing, so the interpreter keeps scheduling it.  AtSolve(i) is the     *)
(* enabling condition of thread i's call of solve and HasSolved(i) the     *)
(* step that call takes, so the second conjunct is weak fairness of        *)
(* WorkerSolve, thread by thread, with ENABLED written out.  The main      *)
(* thread is under no obligation: events may stop coming.                  *)
(***************************************************************************)
AtSolve(i) == i <= Len(workers) /\ workers[i].pc = "started"

HasSolved(i) == AtSolve(i) /\ workers'[i].pc = "solved"

SpecGUIFair ==
    /\ SpecGUI
    /\ \A i \in 1..MaxGuiOps : []<>(~AtSolve(i)) \/ []<><<HasSolved(i)>>_vars
    /\ WF_vars(WorkerPublish)
    /\ WF_vars(WorkerRewind)
    /\ WF_vars(WorkerAuto)
    /\ WF_vars(WorkerClear)

(* C36: every solve worker that is started eventually publishes its result *)
(* and clears the solve-in-progress flag, whatever solve returned; the     *)
(* flag never stays set for ever.                                          *)
C36_WorkerPublishesAndClears ==
    /\ \A i \in 1..MaxGuiOps :
           (i <= Len(workers)) ~> (i <= Len(workers) /\ workers[i].pc = "done")
    /\ [][\A i \in 1..Len(workers) :
              (workers[i].pc # "done" /\ workers'[i].pc = "done")
                  => /\ workers[i].pc = "auto"
                     /\ ~solving_in_progress']_vars
    /\ solving_in_progress ~> ~solving_in_progress

\* a thread has published the failure value and cleared the flag after the
\* cube was turned
C36_Witness ==
    /\ Len(workers) >= 1
    /\ workers[1].pc = "done"
    /\ workers[1].solution = <<>>
    /\ gui_solution = <<>>
    /\ ~solving_in_progress
    /\ stickers # reset

\* the threads that have been started and have not yet published a result
Unpublished == {i \in 1..Len(workers) : workers[i].pc \in {"started", "solved"}}

(* C37: while a solve worker is in flight (started, result not yet         *)
(* published), no GUI action changes the displayed cube's facelet array,   *)
(* the stored solution or the solve-in-progress flag: move keys, scramble, *)
(* reset, step forward and back and auto-play are without effect.  A step  *)
(* that leaves every thread where it is and starts none is a GUI action.   *)
C37_FrozenWhileSolving ==
    [][(Unpublished # {} /\ workers' = workers)
          => /\ stickers' = stickers
             /\ gui_solution' = gui_solution
             /\ solving_in_progress' = solving_in_progress]_vars


(***************************************************************************)
(* Stepping through a stored solution: prev_move, next_move, update and    *)
(* toggle_auto_mode on a window whose stored solution is not empty.  The   *)
(* window shows a cube that was turned away from the solved array, and     *)
(* the stored solution is the list of moves that brings that cube back.    *)
(***************************************************************************)
MaxStored == 2      \* stepping: longest stored solution

StoredMoves == {mUp, mR, mF2}

StoredSolutions == BoundedSeq(StoredMoves, MaxStored) \ {<<>>}

\* the move that undoes a move
inverse_move(move) == MoveOf(move[1], 4 - TurnCount(move))

\* the turns a list of moves undoes: its moves inverted, last first
undone_by(list) == [i \in 1..Len(list) |-> inverse_move(list[Len(list) + 1 - i])]

InitSteps ==
    /\ MOVE_TABLES = _init_move_tables(EmptyDict)
    /\ gui_solution \in StoredSolutions
    /\ start = Replay(reset, undone_by(gui_solution))
    /\ stickers = start
    /\ ops = 0
    /\ NoProbe
    /\ NoHeap
    /\ NoTrace
    /\ solving_in_progress = FALSE
    /\ current_step = 0
    /\ auto_mode = FALSE
    /\ workers = <<>>
    /\ moves = <<>>
    /\ simplified = <<>>
    /\ pc = "idle"
    /\ stage = 0
    /\ working_cube = reset
    /\ solution = <<>>
    /\ error = "none"
    /\ result = <<>>

NextSteps == PrevMove \/ NextMove \/ ToggleAutoMode \/ Update

SpecSteps == InitSteps /\ [][NextSteps]_vars

\* the array the window shows after the first k moves of the stored
\* solution were stepped through from the array it began with
stepped_to(k) == Replay(start, SubSeq(gui_solution, 1, k))

Publishing == {i \in 1..Len(workers) : workers[i].pc = "published"}

(* C39: in every state the window reaches, the states between the single   *)
(* assignments of a publishing solve thread included, current_step is at   *)
(* least 0 and at most the length of the stored solution.                  *)
C39_StepWithinSolution ==
    /\ 0 <= current_step
    /\ current_step <= Len(gui_solution)

\* a thread has assigned the stored solution and not yet current_step, on a
\* cube that was turned
C39_Witness ==
    /\ Publishing # {}
    /\ solving_in_progress
    /\ stickers # reset
    /\ gui_solution = workers[CHOOSE i \in Publishing : TRUE].solution

====
